---- MODULE Spec2Model ----
(***************************************************************************)
(* The transaction lifecycle pipeline of the Ethereum gateway:             *)
(*   - TokenEthJsonRPC.send_transaction        (src/tokeneth/jsonrpc.py)   *)
(*   - TransactionQueueHandler                 (src/toshieth/manager.py)   *)
(*       process_transaction_queue / _process_transaction_queue,           *)
(*       update_transaction, sanity_check                                  *)
(* together with the Ethereum node, the database and the redis cache they  *)
(* talk to.  Every handler is cut at its awaits: the steps of different    *)
(* handlers interleave freely, as they do across tasks and workers.        *)
(***************************************************************************)
EXTENDS Integers, Sequences, FiniteSets, TLC

(***************************************************************************)
(* Bounds of the model.                                                    *)
(***************************************************************************)
\* invocations of process_transaction_queue that may be in flight at once
NInv == 2
\* transactions in play: rows of the backlog and requests clients make
MaxLive == 2
\* signed rows stored before the clients, the monitor and the sweep start
MaxBacklog == 1
\* senders with a backlog
MaxQueues == 1
\* rows the periodic sanity_check looks at
MaxVisits == 1
\* cache faults: a processing key that expires under a pass, a cache call that raises
MaxFaults == 1
\* blocks the node may mine
MaxBlock == 2
\* token_transactions rows of one transaction
MaxTokenRows == 2

Addrs == {"A", "B"}

\* The transactions of the model.  'signed' rows are rows of the queue
\* (v, r, s stored, picked up by _process_transaction_queue); the others are
\* submitted through send_transaction, whose INSERT stores no signature.
\* A transaction to "0x" deploys a contract.  A row is 'intact' when the
\* transaction rebuilt from its columns has the hash stored in the row.
TX == <<
  [from |-> "A", to |-> "B", nonce |-> 0, value |-> 2, gas |-> 1, gas_price |-> 1, signed |-> TRUE, intact |-> TRUE],
  [from |-> "A", to |-> "B", nonce |-> 1, value |-> 1, gas |-> 1, gas_price |-> 1, signed |-> TRUE, intact |-> TRUE],
  [from |-> "B", to |-> "A", nonce |-> 0, value |-> 1, gas |-> 1, gas_price |-> 1, signed |-> TRUE, intact |-> TRUE],
  [from |-> "A", to |-> "B", nonce |-> 0, value |-> 1, gas |-> 1, gas_price |-> 2, signed |-> FALSE, intact |-> TRUE],
  [from |-> "A", to |-> "B", nonce |-> 0, value |-> 1, gas |-> 1, gas_price |-> 1, signed |-> FALSE, intact |-> TRUE],
  [from |-> "A", to |-> "B", nonce |-> 1, value |-> 2, gas |-> 1, gas_price |-> 1, signed |-> FALSE, intact |-> TRUE],
  [from |-> "B", to |-> "A", nonce |-> 1, value |-> 1, gas |-> 1, gas_price |-> 1, signed |-> FALSE, intact |-> TRUE],
  [from |-> "A", to |-> "B", nonce |-> 1, value |-> 1, gas |-> 1, gas_price |-> 2, signed |-> TRUE, intact |-> TRUE],
  [from |-> "A", to |-> "0x", nonce |-> 0, value |-> 0, gas |-> 2, gas_price |-> 1, signed |-> TRUE, intact |-> TRUE],
  [from |-> "B", to |-> "A", nonce |-> 0, value |-> 0, gas |-> 1, gas_price |-> 1, signed |-> TRUE, intact |-> FALSE]
>>

TxIds == 1..Len(TX)
SignedTxs == {t \in TxIds : TX[t].signed}
\* the signed transfers between the addresses of the model
QueueTxs == {t \in SignedTxs : TX[t].intact /\ TX[t].to # "0x"}
RequestTxs == {t \in TxIds : ~TX[t].signed}

\* the signed rows that overwrite an earlier signed row: same sender, same nonce
Overwrites ==
  {t \in QueueTxs : \E u \in QueueTxs : u < t /\ TX[u].from = TX[t].from /\ TX[u].nonce = TX[t].nonce}

\* wei held by each address in the genesis block
GenesisBalance == [a \in Addrs |-> IF a = "A" THEN 5 ELSE 0]

\* value + gas * gas_price
Cost(t) == TX[t].value + TX[t].gas * TX[t].gas_price

RECURSIVE SumOver(_, _)
SumOver(S, f) ==
  IF S = {} THEN 0
  ELSE LET x == CHOOSE y \in S : TRUE IN f[x] + SumOver(S \ {x}, f)

SetMax(S) == CHOOSE x \in S : \A y \in S : y <= x

VARIABLES
  \* ---- database
  status,        \* transactions.status per row ("none": no such row)
  blocknumber,   \* transactions.blocknumber per row (0: NULL)
  lastBlock,     \* last_blocknumber.blocknumber
  \* ---- redis
  nonceHint,     \* nonce:<addr> (-1: key absent)
  procLock,      \* processing_tx_queue:<addr> is set
  rerun,         \* processing_tx_queue:<addr>:should_re_run is set
  subLock,       \* lock:<addr>:<nonce> keys held by send_transaction
  safeLow,       \* gas_station_safelow_gas_price (0: key absent)
  stdPrice,      \* gas_station_standard_gas_price (0: key absent)
  \* ---- Ethereum node
  pool,          \* pending transactions the node knows
  minedAt,       \* block each transaction was mined in (0: not mined)
  accepted,      \* transactions an eth_sendRawTransaction call succeeded for
  \* ---- task queue of the manager
  pendingPTQ,    \* addresses with a dispatched process_transaction_queue task
  utasks,        \* dispatched update_transaction tasks
  \* ---- process_transaction_queue invocations
  ipc, iaddr, icands, inew, ibal, inonce, inet, ilast, iprev, icheck, icall,
  \* ---- send_transaction requests, one per request transaction
  rpc, rres,
  \* ---- sanity_check
  scall,         \* the update_transaction call the sweep is in
  visits,        \* rows and queues the sweep has looked at
  \* ---- token transfers and notifications
  tokrows,       \* token_transactions rows per transaction, in transaction_log_index order
  logs,          \* the logs in the receipt of each transaction, once it is mined
  regs,          \* notification_registrations: the services registered per address
  outbox,        \* dispatched send_notification tasks
  toWs,          \* messages handed to eth_dispatcher.send_notification
  wsSeen,        \* messages the websocket clients have read
  toPush,        \* messages handed to push_dispatcher.send_notification
  tokmsgs,       \* history: the messages update_transaction rendered for token rows
  \* ---- history
  notes,         \* per transaction, the notifications handed to send_notification, in order:
                 \* the status announced to the sender, and whether the recipient got it too
  sent,          \* per sender, the transactions in the order of their first eth_sendRawTransaction
  lockOwner,     \* the invocation whose SET wrote the processing key now present (0: none)
  faults,        \* cache faults so far
  settled        \* per address: "yes" when a pass for it ran undisturbed and nothing changed
                 \* since, "running" while such a pass runs, "no" otherwise ("off": not recorded)

dbVars == <<status, blocknumber, lastBlock>>
cacheVars == <<nonceHint, procLock, rerun, subLock, safeLow, stdPrice>>
nodeVars == <<pool, minedAt, accepted>>
taskVars == <<pendingPTQ, utasks>>
invVars == <<ipc, iaddr, icands, inew, ibal, inonce, inet, ilast, iprev, icheck, icall>>
reqVars == <<rpc, rres>>
histVars == <<notes, sent, lockOwner, faults, settled>>
sanVars == <<scall, visits>>
tokVars == <<tokrows, logs, regs, outbox, toWs, wsSeen, toPush, tokmsgs>>
vars == <<dbVars, cacheVars, nodeVars, taskVars, invVars, reqVars, sanVars, histVars, tokVars>>

Invs == 1..NInv
NoCall == [tx |-> 0, st |-> "none", seen |-> "none", retry |-> FALSE]

\* what a second run of a pass must find unchanged: the database, the chain
\* and the cache
Tracked == <<status, blocknumber, lastBlock, pool, minedAt, nonceHint, safeLow>>

\* history: a change unsettles every address but those whose own pass made it
SettledAfter(own) ==
  [b \in Addrs |-> IF b \in own \/ settled[b] = "off" THEN settled[b]
                   ELSE IF Tracked' # Tracked THEN "no" ELSE settled[b]]

(***************************************************************************)
(* The Ethereum node.                                                      *)
(***************************************************************************)
ChainHead == SetMax({minedAt[t] : t \in TxIds} \cup {0})

MinedBy(b) == {t \in TxIds : minedAt[t] # 0 /\ minedAt[t] <= b}

\* eth_getBalance(address, block)
ChainBalance(a, b) ==
  GenesisBalance[a]
  + SumOver({t \in MinedBy(b) : TX[t].to = a}, [t \in TxIds |-> TX[t].value])
  - SumOver({t \in MinedBy(b) : TX[t].from = a}, [t \in TxIds |-> Cost(t)])

\* eth_getTransactionCount(address, block)
ChainNonce(a, b) == Cardinality({t \in MinedBy(b) : TX[t].from = a})

\* eth_getTransactionByHash(hash): "none" (null result), "pending" (blockNumber
\* null) or "mined".  The node that answers may lag behind: it may not have
\* seen the block, or the pending transaction, yet.  A row that is not
\* intact stores a hash the node has no transaction for.
TxViews(t) ==
  IF ~TX[t].intact THEN {"none"}
  ELSE IF minedAt[t] # 0 THEN {"mined", "pending", "none"}
  ELSE IF t \in pool THEN {"pending", "none"}
  ELSE {"none"}

\* eth_sendRawTransaction(tx): the node's answer when it is reached
SendRawAnswer(t) ==
  IF t \in pool \/ minedAt[t] # 0 THEN "already_imported"
  ELSE IF TX[t].nonce < ChainNonce(TX[t].from, ChainHead) THEN "nonce_too_low"
  ELSE IF ChainBalance(TX[t].from, ChainHead) < Cost(t) THEN "rejected"
  ELSE IF \E u \in pool : /\ TX[u].from = TX[t].from /\ TX[u].nonce = TX[t].nonce
                          /\ TX[u].gas_price >= TX[t].gas_price THEN "rejected"
  ELSE "ok"

\* the pool after the node accepted t: t replaces a cheaper rival of its nonce
PoolAfterSend(t) ==
  (pool \ {u \in pool : TX[u].from = TX[t].from /\ TX[u].nonce = TX[t].nonce}) \cup {t}

\* history: the first eth_sendRawTransaction call made for a transaction
SentAfter(t) ==
  IF \E k \in 1..Len(sent[TX[t].from]) : sent[TX[t].from][k] = t THEN sent
  ELSE [sent EXCEPT ![TX[t].from] = Append(@, t)]

\* the node mines a pending transaction whose nonce is next and which is funded
Mine(t) ==
  /\ t \in pool
  /\ ChainHead < MaxBlock
  /\ TX[t].nonce = ChainNonce(TX[t].from, ChainHead)
  /\ ChainBalance(TX[t].from, ChainHead) >= Cost(t)
  /\ minedAt' = [minedAt EXCEPT ![t] = ChainHead + 1]
  /\ pool' = pool \ {u \in pool : TX[u].from = TX[t].from /\ TX[u].nonce = TX[t].nonce}
  /\ UNCHANGED <<tokVars, accepted, dbVars, cacheVars, taskVars, invVars, reqVars, sanVars, notes, sent, lockOwner, faults>>
  /\ settled' = SettledAfter({})

\* the owner of an address sends a transaction through another client: the
\* node takes it, the service has no row for it
OutsideSend(t) ==
  /\ ~TX[t].signed
  /\ rpc[t] = "absent"
  /\ status[t] = "none"
  /\ SendRawAnswer(t) = "ok"
  /\ pool' = PoolAfterSend(t)
  /\ UNCHANGED <<tokVars, minedAt, accepted, dbVars, cacheVars, taskVars, invVars, reqVars, sanVars, notes, sent, lockOwner, faults>>
  /\ settled' = SettledAfter({})

\* the node drops a pending transaction from its pool
NodeDrop(t) ==
  /\ t \in pool
  /\ pool' = pool \ {t}
  /\ UNCHANGED <<tokVars, minedAt, accepted, dbVars, cacheVars, taskVars, invVars, reqVars, sanVars, notes, sent, lockOwner, faults>>
  /\ settled' = SettledAfter({})

(***************************************************************************)
(* update_transaction (manager.py 308-465).  A call is cut in two: the     *)
(* SELECT of the row with the early returns (311-330), and, in a later     *)
(* database transaction, the UPDATE with the notifications (332-465).      *)
(***************************************************************************)
\* (for comparison: a call that goes on for every row there is)
ProceedsOnAnyRow(t, st) == status[t] # "none"

\* 313, 324: the call goes on only for an existing row in another status
\* that is not yet confirmed
UpdateProceeds(t, st) ==
  /\ status[t] # "none"
  /\ status[t] # st
  /\ status[t] # "confirmed"

\* the frame of a call that read row t: NoCall when the call returned early
UpdateRead(t, st) ==
  IF UpdateProceeds(t, st) THEN [tx |-> t, st |-> st, seen |-> status[t], retry |-> FALSE] ELSE NoCall

\* (for comparison: an update that writes whatever the node reports)
AlwaysStores(c, view) == TRUE

\* 332-358: a row is written unless 'confirmed' is asked for and the node
\* does not report a block number
UpdateStores(c, view) == c.st # "confirmed" \/ view = "mined"

StatusAfterUpdate(c, view) ==
  IF UpdateStores(c, view) THEN [status EXCEPT ![c.tx] = c.st] ELSE status

BlockAfterUpdate(c, view) ==
  IF c.st = "confirmed" /\ view = "mined"
  THEN [blocknumber EXCEPT ![c.tx] = minedAt[c.tx]]
  ELSE blocknumber

\* 344-353: without a block number the call is dispatched again, unless it
\* is itself a retry and 60 seconds have passed since the first try (giveUp)
UpdateRetries(c, view, giveUp) == c.st = "confirmed" /\ view # "mined" /\ ~(c.retry /\ giveUp)

\* 363-367: 'queued' is announced as 'unconfirmed', and queued -> unconfirmed
\* is not announced again
NoteStatus(st) == IF st = "queued" THEN "unconfirmed" ELSE st

UpdateAnnounces(c, view) ==
  /\ UpdateStores(c, view)
  /\ ~(c.st = "unconfirmed" /\ c.seen = "queued")

\* 315-320, 370: the transaction has token_transactions rows
HasTokens(t) == tokrows[t] # <<>>

\* 428-434: a transaction without token rows is announced by one Payment
RendersPayment(c, view) == UpdateAnnounces(c, view) /\ ~HasTokens(c.tx)

\* 445-461: the sender always, the recipient unless new -> error
NotesOfUpdate(c, view) ==
  IF ~RendersPayment(c, view) THEN <<>>
  ELSE <<[status |-> NoteStatus(c.st),
          to |-> TX[c.tx].to # "0x" /\ ~(c.seen = "new" /\ NoteStatus(c.st) = "error")]>>

\* (for comparison: a call that dispatches no queue)
NoTriggers(c, view) == {}

\* (for comparison: a call that dispatches the queue of whatever the row names)
TriggersAnyRecipient(c, view) == IF RendersPayment(c, view) THEN {TX[c.tx].to} ELSE {}

\* 463-465: the queue of the recipient is processed
TriggersOfUpdate(c, view) ==
  IF RendersPayment(c, view) /\ TX[c.tx].to # "0x" THEN {TX[c.tx].to} ELSE {}

RetryOfUpdate(c, view, giveUp) ==
  IF UpdateRetries(c, view, giveUp)
  THEN {[tx |-> c.tx, st |-> c.st, seen |-> "none", retry |-> TRUE]} ELSE {}

(***************************************************************************)
(* The token rows of a transaction in update_transaction (368-427) and the *)
(* messages of a call (428-465).                                           *)
(***************************************************************************)
\* 0x0000000000000000000000000000000000000000
ZeroAddr == "0x0"

\* eth_getTransactionReceipt(hash) (372): asked for a transaction with token
\* rows that was stored as confirmed; null when the answering node lags
ReceiptViews(c, view) ==
  IF HasTokens(c.tx) /\ c.st = "confirmed" /\ UpdateAnnounces(c, view) THEN {"none", "there"}
  ELSE {"unused"}

\* 373-379: without a receipt the call is dispatched again and returns
RequeueOfUpdate(c, view, rv) ==
  IF rv = "none" THEN {[tx |-> c.tx, st |-> c.st, seen |-> "none", retry |-> FALSE]} ELSE {}

\* (for comparison: a check that is content with any log in the receipt)
AnyLogCounts(row, L) == L # {}

\* 385-399: a log with more than two topics counts when it is a Transfer
\* from and to the addresses of the row; a shorter log of the WETH contract
\* counts when it is a Deposit to the row's to_address or a Withdrawal from
\* its from_address
HasTransferEvent(row, L) ==
  \E l \in L :
    \/ l.topics > 2 /\ l.topic = "Transfer" /\ l.a1 = row.from /\ l.a2 = row.to
    \/ /\ l.topics <= 2
       /\ l.weth
       /\ \/ l.topic = "Deposit" /\ l.a1 = row.to
          \/ l.topic = "Withdrawal" /\ l.a1 = row.from

\* 381-403: the status a token row is given
TokenStatus(c, row) ==
  IF c.st = "confirmed"
  THEN IF HasTransferEvent(row, logs[c.tx]) THEN "confirmed" ELSE "error"
  ELSE NoteStatus(c.st)

\* 370-379: the loop over the token rows is entered
TokenBranch(c, view, rv) == HasTokens(c.tx) /\ UpdateAnnounces(c, view) /\ rv # "none"

\* 420-425: UPDATE token_transactions SET status
TokRowsAfterUpdate(c, view, rv) ==
  IF TokenBranch(c, view, rv)
  THEN [tokrows EXCEPT ![c.tx] =
          [k \in 1..Len(tokrows[c.tx]) |->
             [tokrows[c.tx][k] EXCEPT !.status = TokenStatus(c, tokrows[c.tx][k])]]]
  ELSE tokrows

\* 410-419, 427-433: a TokenPayment for a row that is confirmed, and a Payment
\* for a deposit into or a withdrawal from the WETH contract
RowMessages(c, k) ==
  LET row == tokrows[c.tx][k] IN
    (IF TokenStatus(c, row) = "confirmed"
     THEN <<[tx |-> c.tx, row |-> k, kind |-> "TokenPayment",
             from |-> row.from, to |-> row.to, status |-> "confirmed"]>>
     ELSE <<>>)
    \o (IF row.weth /\ (row.from = ZeroAddr \/ row.to = ZeroAddr)
        THEN <<[tx |-> c.tx, row |-> k, kind |-> "Payment",
                from |-> row.from, to |-> row.to, status |-> NoteStatus(c.st)]>>
        ELSE <<>>)

RECURSIVE TokenMessages(_, _)
TokenMessages(c, k) == IF k = 0 THEN <<>> ELSE TokenMessages(c, k - 1) \o RowMessages(c, k)

\* 369-441: the messages of a call
MessagesOfUpdate(c, view, rv) ==
  IF TokenBranch(c, view, rv) THEN TokenMessages(c, Len(tokrows[c.tx]))
  ELSE IF RendersPayment(c, view)
  THEN <<[tx |-> c.tx, row |-> 0, kind |-> "Payment",
          from |-> TX[c.tx].from, to |-> TX[c.tx].to, status |-> NoteStatus(c.st)]>>
  ELSE <<>>

\* 449-452: the loop over the messages returns at a message to "0x"
Handled(msgs) ==
  LET stops == {k \in 1..Len(msgs) : msgs[k].to = "0x"} IN
    IF stops = {} THEN msgs ELSE SubSeq(msgs, 1, CHOOSE k \in stops : \A j \in stops : k <= j)

\* 446-461: the addresses send_notification is dispatched for
Recipients(c, m) ==
  {m.from} \cup (IF m.to # "0x" /\ ~(c.seen = "new" /\ m.status = "error") THEN {m.to} ELSE {})

\* a send_notification task; one for an address without a registration
\* does nothing (468-476) and is left out
NotifyTasks(c, msgs) ==
  {[addr |-> a, tx |-> msgs[k].tx, row |-> msgs[k].row, kind |-> msgs[k].kind, status |-> msgs[k].status] :
     <<a, k>> \in {q \in (DOMAIN regs) \X (1..Len(msgs)) : q[1] \in Recipients(c, msgs[q[2]]) /\ regs[q[1]] # {}}}

\* 463-465: the queues dispatched for the recipients of token messages
TokenTriggers(c, view, rv) ==
  IF TokenBranch(c, view, rv)
  THEN {a \in Addrs : \E k \in 1..Len(Handled(MessagesOfUpdate(c, view, rv))) :
                         Handled(MessagesOfUpdate(c, view, rv))[k].to = a}
  ELSE {}

\* the second half of a call: what it writes, announces and dispatches
UpdateWrite(c, view, giveUp, tasksLeft, alsoQueue) ==
  \E rv \in ReceiptViews(c, view) :
    /\ status' = StatusAfterUpdate(c, view)
    /\ blocknumber' = BlockAfterUpdate(c, view)
    /\ notes' = [notes EXCEPT ![c.tx] = @ \o NotesOfUpdate(c, view)]
    /\ pendingPTQ' = pendingPTQ \cup TriggersOfUpdate(c, view) \cup TokenTriggers(c, view, rv) \cup alsoQueue
    /\ utasks' = tasksLeft \cup RetryOfUpdate(c, view, giveUp) \cup RequeueOfUpdate(c, view, rv)
    /\ tokrows' = TokRowsAfterUpdate(c, view, rv)
    /\ outbox' = outbox \cup NotifyTasks(c, Handled(MessagesOfUpdate(c, view, rv)))
    /\ tokmsgs' = IF TokenBranch(c, view, rv)
                  THEN tokmsgs \cup {Handled(MessagesOfUpdate(c, view, rv))[k] :
                                       k \in 1..Len(Handled(MessagesOfUpdate(c, view, rv)))}
                  ELSE tokmsgs
    /\ UNCHANGED <<logs, regs, toWs, wsSeen, toPush>>

\* (for comparison: a websocket service that passes every message on)
WsPassesAll(n) == TRUE

\* the websocket service passes Payment messages on to its clients, and no
\* other (test_erc20.py 799-825)
WsPasses(n) == n.kind = "Payment"

\* the websocket service handles a message of eth_dispatcher.send_notification
WsDeliver(n) ==
  /\ n \in toWs
  /\ toWs' = toWs \ {n}
  /\ wsSeen' = IF WsPasses(n) THEN wsSeen \cup {n} ELSE wsSeen
  /\ UNCHANGED <<dbVars, cacheVars, nodeVars, taskVars, invVars, reqVars, sanVars, histVars>>
  /\ UNCHANGED <<tokrows, logs, regs, outbox, toPush, tokmsgs>>

\* send_notification (467-476): the services registered for the address
SendNotification(n) ==
  /\ n \in outbox
  /\ outbox' = outbox \ {n}
  /\ toWs' = IF "ws" \in regs[n.addr] THEN toWs \cup {n} ELSE toWs
  /\ toPush' = IF "gcm" \in regs[n.addr] \/ "apn" \in regs[n.addr] THEN toPush \cup {n} ELSE toPush
  /\ UNCHANGED <<dbVars, cacheVars, nodeVars, taskVars, invVars, reqVars, sanVars, histVars>>
  /\ UNCHANGED <<tokrows, logs, regs, wsSeen, tokmsgs>>

\* a dispatched update_transaction task reads its row
UpdTaskRead(c) ==
  /\ c \in utasks
  /\ c.seen = "none"
  /\ utasks' = (utasks \ {c}) \cup (IF UpdateProceeds(c.tx, c.st) THEN {[c EXCEPT !.seen = status[c.tx]]} ELSE {})
  /\ UNCHANGED <<tokVars, dbVars, cacheVars, nodeVars, pendingPTQ, invVars, reqVars, sanVars, histVars>>

\* a dispatched update_transaction task writes
UpdTaskWrite(c, view, giveUp) ==
  /\ c \in utasks
  /\ c.seen # "none"
  /\ view \in TxViews(c.tx)
  /\ UpdateWrite(c, view, giveUp, utasks \ {c}, {})
  /\ UNCHANGED <<lastBlock, cacheVars, nodeVars, invVars, reqVars, sanVars, sent, lockOwner, faults>>
  /\ settled' = SettledAfter({})

(***************************************************************************)
(* _process_transaction_queue (manager.py 60-306): one pass.               *)
(***************************************************************************)
\* 70-78: the signed rows of the sender that are new or queued
Candidates(a) ==
  {t \in TxIds : TX[t].from = a /\ status[t] \in {"new", "queued"} /\ TX[t].signed}

\* 76-77, 118: ORDER BY nonce DESC and pop(): the candidates in every order
\* with the nonces ascending
NonceOrdered(S) ==
  {s \in [1..Cardinality(S) -> S] :
     /\ \A k, l \in 1..Cardinality(S) : k # l => s[k] # s[l]
     /\ \A k, l \in 1..Cardinality(S) : k < l => TX[s[k]].nonce <= TX[s[l]].nonce}

\* 'last_blocknumber or "latest"'
BlockArg(lb) == IF lb = 0 THEN ChainHead ELSE lb

\* 96-102: the sender's rows that are unconfirmed, or confirmed above last_blocknumber
UnconfirmedOut(a, lb) ==
  {t \in TxIds : /\ TX[t].from = a
                 /\ \/ status[t] = "unconfirmed"
                    \/ status[t] = "confirmed" /\ blocknumber[t] > lb}

\* 104-111: the nonce the first candidate is expected to carry
ExpectedNonce(a, lb) ==
  IF UnconfirmedOut(a, lb) # {}
  THEN SetMax({TX[t].nonce : t \in UnconfirmedOut(a, lb)}) + 1
  ELSE ChainNonce(a, BlockArg(lb))

\* (for comparison: a pass that takes the chain balance as it is)
BalanceOnChain(a, lb) == ChainBalance(a, BlockArg(lb))

\* 92, 108: the balance at last_blocknumber less the cost of the unconfirmed rows
WorkingBalance(a, lb) ==
  ChainBalance(a, BlockArg(lb))
  - SumOver(UnconfirmedOut(a, lb), [t \in TxIds |-> Cost(t)])

\* 267-274: the rows sent to the address that are still on their way
IncomingRows(a, lb) ==
  {u \in TxIds : /\ TX[u].to = a
                 /\ \/ status[u] \in {"new", "queued", "unconfirmed"}
                    \/ status[u] = "confirmed" /\ blocknumber[u] > lb}

\* (for comparison: a pass that counts nothing as on its way)
NothingPending(a, lb) == 0

\* 277
PendingReceived(a, lb) == SumOver(IncomingRows(a, lb), [u \in TxIds |-> TX[u].value])

\* 286
IncomingAhead(a, lb) == \E u \in IncomingRows(a, lb) : blocknumber[u] # 0 /\ blocknumber[u] > lb

\* 133: the rows of the same sender and nonce with another hash
OldTxs(t) ==
  {u \in TxIds \ {t} : /\ status[u] # "none"
                       /\ TX[u].from = TX[t].from
                       /\ TX[u].nonce = TX[t].nonce}

\* the pass reads its rows and the chain (65-115)
PassStart(i) ==
  /\ ipc[i] = "start"
  /\ LET a == iaddr[i] IN
     \E s \in NonceOrdered(Candidates(a)) :
       /\ icands' = [icands EXCEPT ![i] = s]
       /\ inew' = [inew EXCEPT ![i] = {t \in Candidates(a) : status[t] = "new"}]
       /\ ilast' = [ilast EXCEPT ![i] = lastBlock]
       /\ ibal' = [ibal EXCEPT ![i] = IF Candidates(a) = {} THEN 0 ELSE WorkingBalance(a, lastBlock)]
       /\ inonce' = [inonce EXCEPT ![i] = IF Candidates(a) = {} THEN 0 ELSE ExpectedNonce(a, lastBlock)]
       /\ inet' = [inet EXCEPT ![i] = IF Candidates(a) = {} THEN 0 ELSE ChainNonce(a, BlockArg(lastBlock))]
  /\ ipc' = [ipc EXCEPT ![i] = "loop"]
  /\ settled' = [settled EXCEPT ![iaddr[i]] = IF @ \in {"off", "yes"} THEN @ ELSE "running"]
  /\ UNCHANGED <<iaddr, iprev, icheck, icall>>
  /\ UNCHANGED <<tokVars, dbVars, cacheVars, nodeVars, taskVars, reqVars, sanVars, notes, sent, lockOwner, faults>>

\* (for comparison: a pass that knows no safe-low price)
NoSafeLow(t) == FALSE

\* 202-203: a safe-low price is cached and the gas price of the row is below it
BelowSafeLow(t) == safeLow # 0 /\ safeLow > TX[t].gas_price

\* (for comparison: a pass that looks into no send error)
NeverReconcilable(answer) == FALSE

\* 243-244: the error of eth_sendRawTransaction is one of the two the pass
\* looks into
Reconcilable(answer) == answer \in {"nonce_too_low", "already_imported"}

\* (for comparison: a loop body that leaves every row in the queue)
OutcomeHoldsAll(i, t, up, view, old) ==
  [st |-> "none", prev |-> iprev[i], bal |-> ibal[i], nonce |-> inonce[i],
   check |-> icheck[i], cands |-> icands[i], pc |-> "queueing",
   tried |-> FALSE, ok |-> FALSE, retry |-> FALSE]

\* what the loop body decides for the candidate t it popped (119-298).
\*   up:   the node is reached by eth_sendRawTransaction
\*   view: the node's answer to eth_getTransactionByHash (245)
\*   old:  the row fetched at 133 (0: none)
PassOutcome(i, t, up, view, old) ==
  LET a == iaddr[i]
      base == [st |-> "none", prev |-> iprev[i], bal |-> ibal[i], nonce |-> inonce[i],
               check |-> icheck[i], cands |-> Tail(icands[i]), pc |-> "loop",
               tried |-> FALSE, ok |-> FALSE, retry |-> FALSE]
      fail == [base EXCEPT !.st = "error", !.prev = TRUE, !.check = icheck[i] \cup {TX[t].to}]
      mismatch == inonce[i] # TX[t].nonce /\ inet[i] # TX[t].nonce
      answer == IF up THEN SendRawAnswer(t) ELSE "rejected"
  IN
  IF iprev[i] THEN
    \* 122-126
    [base EXCEPT !.st = "error", !.check = icheck[i] \cup {TX[t].to}]
  ELSE IF mismatch /\ t \in inew[i] /\ old # 0 /\ status[old] \in {"unconfirmed", "confirmed"} THEN
    \* 138-145
    fail
  ELSE IF mismatch /\ t \in inew[i] /\ old # 0 /\ status[old] # "error" THEN
    \* 146-175: 'transaction.nonce > old_tx.nonce' never holds, the nonces are equal
    [base EXCEPT !.st = "error", !.check = icheck[i] \cup {TX[t].to, TX[t].from},
                 !.cands = <<>>]
  ELSE IF mismatch /\ t \notin inew[i] THEN
    \* 181-188
    fail
  ELSE IF ibal[i] >= Cost(t) THEN
    IF BelowSafeLow(t) THEN
      \* 204-214
      [base EXCEPT !.cands = icands[i], !.pc = "queueing", !.retry = TRUE]
    ELSE IF answer = "ok" THEN
      \* 234-237, 257-261
      [base EXCEPT !.st = "unconfirmed", !.bal = ibal[i] - Cost(t),
                   !.nonce = IF inonce[i] = TX[t].nonce THEN inonce[i] + 1 ELSE inonce[i],
                   !.tried = TRUE, !.ok = TRUE]
    ELSE IF Reconcilable(answer) /\ view # "none" THEN
      \* 243-251
      [base EXCEPT !.st = IF view = "mined" THEN "confirmed" ELSE "unconfirmed",
                   !.tried = TRUE]
    ELSE
      \* 252-255
      [fail EXCEPT !.tried = TRUE]
  ELSE IF ibal[i] + PendingReceived(a, ilast[i]) < Cost(t) THEN
    \* 279-284
    fail
  ELSE
    \* 285-298
    [base EXCEPT !.cands = icands[i], !.pc = "queueing",
                 !.check = IF IncomingAhead(a, ilast[i]) THEN icheck[i] \cup {a} ELSE icheck[i]]

\* (for comparison: a loop that forgets the failure of the candidate)
PassStepForgets(i, up, view, old) ==
  /\ ipc[i] = "loop"
  /\ icands[i] # <<>>
  /\ icall[i] = NoCall
  /\ LET t == Head(icands[i]) IN
     /\ view \in TxViews(t)
     /\ old \in (IF OldTxs(t) = {} THEN {0} ELSE OldTxs(t))
     /\ LET o == PassOutcome(i, t, up, view, old) IN
        /\ icands' = [icands EXCEPT ![i] = o.cands]
        /\ iprev' = [iprev EXCEPT ![i] = FALSE]
        /\ ibal' = [ibal EXCEPT ![i] = o.bal]
        /\ inonce' = [inonce EXCEPT ![i] = o.nonce]
        /\ icheck' = [icheck EXCEPT ![i] = o.check]
        /\ ipc' = [ipc EXCEPT ![i] = o.pc]
        /\ icall' = [icall EXCEPT ![i] = IF o.st = "none" THEN NoCall ELSE UpdateRead(t, o.st)]
        /\ pool' = IF o.ok THEN PoolAfterSend(t) ELSE pool
        /\ accepted' = IF o.ok THEN accepted \cup {t} ELSE accepted
        /\ sent' = IF o.tried THEN SentAfter(t) ELSE sent
        /\ pendingPTQ' = IF o.retry THEN pendingPTQ \cup {iaddr[i]} ELSE pendingPTQ
  /\ UNCHANGED <<iaddr, inew, inet, ilast>>
  /\ UNCHANGED <<tokVars, dbVars, cacheVars, minedAt, utasks, reqVars, sanVars, notes, lockOwner, faults>>
  /\ settled' = SettledAfter({iaddr[i]})

\* one turn of the loop at 118: the candidate is judged, sent if it can be,
\* and update_transaction is entered for it
PassStep(i, up, view, old) ==
  /\ ipc[i] = "loop"
  /\ icands[i] # <<>>
  /\ icall[i] = NoCall
  /\ LET t == Head(icands[i]) IN
     /\ view \in TxViews(t)
     /\ old \in (IF OldTxs(t) = {} THEN {0} ELSE OldTxs(t))
     /\ LET o == PassOutcome(i, t, up, view, old) IN
        /\ icands' = [icands EXCEPT ![i] = o.cands]
        /\ iprev' = [iprev EXCEPT ![i] = o.prev]
        /\ ibal' = [ibal EXCEPT ![i] = o.bal]
        /\ inonce' = [inonce EXCEPT ![i] = o.nonce]
        /\ icheck' = [icheck EXCEPT ![i] = o.check]
        /\ ipc' = [ipc EXCEPT ![i] = o.pc]
        /\ icall' = [icall EXCEPT ![i] = IF o.st = "none" THEN NoCall ELSE UpdateRead(t, o.st)]
        /\ pool' = IF o.ok THEN PoolAfterSend(t) ELSE pool
        /\ accepted' = IF o.ok THEN accepted \cup {t} ELSE accepted
        /\ sent' = IF o.tried THEN SentAfter(t) ELSE sent
        /\ pendingPTQ' = IF o.retry THEN pendingPTQ \cup {iaddr[i]} ELSE pendingPTQ
  /\ UNCHANGED <<iaddr, inew, inet, ilast>>
  /\ UNCHANGED <<tokVars, dbVars, cacheVars, minedAt, utasks, reqVars, sanVars, notes, lockOwner, faults>>
  /\ settled' = SettledAfter({iaddr[i]})

\* 210-213, 294-297: the rest of the queue is walked, new rows become queued
QueueStep(i) ==
  /\ ipc[i] = "queueing"
  /\ icands[i] # <<>>
  /\ icall[i] = NoCall
  /\ LET u == Head(icands[i]) IN
     /\ icands' = [icands EXCEPT ![i] = Tail(icands[i])]
     /\ icall' = [icall EXCEPT ![i] = IF u \in inew[i] THEN UpdateRead(u, "queued") ELSE NoCall]
  /\ UNCHANGED <<ipc, iaddr, inew, ibal, inonce, inet, ilast, iprev, icheck>>
  /\ UNCHANGED <<tokVars, dbVars, cacheVars, nodeVars, taskVars, reqVars, sanVars, histVars>>

\* the update_transaction call of the pass writes
PassWrite(i, view, giveUp) ==
  /\ ipc[i] \in {"loop", "queueing"}
  /\ icall[i] # NoCall
  /\ view \in TxViews(icall[i].tx)
  /\ UpdateWrite(icall[i], view, giveUp, utasks, {})
  /\ icall' = [icall EXCEPT ![i] = NoCall]
  /\ UNCHANGED <<ipc, iaddr, icands, inew, ibal, inonce, inet, ilast, iprev, icheck>>
  /\ UNCHANGED <<lastBlock, cacheVars, nodeVars, reqVars, sanVars, sent, lockOwner, faults>>
  /\ settled' = SettledAfter({iaddr[i]})

(***************************************************************************)
(* process_transaction_queue (manager.py 33-58): the lock around the pass. *)
(***************************************************************************)
\* 37-40: SET processing_tx_queue:<addr> 1 EX 120 NX.  Invocations are
\* interchangeable: the task goes to the idle one of lowest index.
Acquire(i, a) ==
  /\ ipc[i] = "idle"
  /\ \A j \in Invs : j < i => ipc[j] # "idle"
  /\ a \in pendingPTQ
  /\ pendingPTQ' = pendingPTQ \ {a}
  /\ iaddr' = [iaddr EXCEPT ![i] = a]
  /\ IF procLock[a]
     THEN /\ ipc' = [ipc EXCEPT ![i] = "setflag"]
          /\ UNCHANGED <<procLock, lockOwner>>
     ELSE /\ ipc' = [ipc EXCEPT ![i] = "start"]
          /\ procLock' = [procLock EXCEPT ![a] = TRUE]
          /\ lockOwner' = [lockOwner EXCEPT ![a] = i]
  /\ UNCHANGED <<nonceHint, rerun, subLock, safeLow, stdPrice>>
  /\ UNCHANGED <<icands, inew, ibal, inonce, inet, ilast, iprev, icheck, icall>>
  /\ UNCHANGED <<tokVars, dbVars, nodeVars, utasks, reqVars, sanVars, notes, sent, faults, settled>>

\* the locals of an invocation that is over
Retire(i) ==
  /\ ipc' = [ipc EXCEPT ![i] = "idle"]
  /\ iaddr' = [iaddr EXCEPT ![i] = "A"]

\* 41-42: the lock is held by another invocation: ask it to run again, return
SetFlag(i) ==
  /\ ipc[i] = "setflag"
  /\ rerun' = [rerun EXCEPT ![iaddr[i]] = TRUE]
  /\ Retire(i)
  /\ UNCHANGED <<nonceHint, procLock, subLock, safeLow, stdPrice>>
  /\ UNCHANGED <<icands, inew, ibal, inonce, inet, ilast, iprev, icheck, icall>>
  /\ UNCHANGED <<tokVars, dbVars, nodeVars, taskVars, reqVars, sanVars, histVars>>

\* (for comparison: a holder that clears the flag and never runs again)
ReadDrop(i) ==
  /\ ipc[i] \in {"loop", "queueing"}
  /\ icands[i] = <<>>
  /\ icall[i] = NoCall
  /\ rerun' = [rerun EXCEPT ![iaddr[i]] = FALSE]
  /\ ipc' = [ipc EXCEPT ![i] = "release"]
  /\ UNCHANGED <<iaddr, icands, inew, ibal, inonce, inet, ilast, iprev, icheck, icall>>
  /\ UNCHANGED <<nonceHint, procLock, subLock, safeLow, stdPrice>>
  /\ UNCHANGED <<tokVars, dbVars, nodeVars, taskVars, reqVars, sanVars, histVars>>

\* (for comparison: a pass that always asks for another pass of its address)
ReadClearAgain(i) ==
  /\ ipc[i] \in {"loop", "queueing"}
  /\ icands[i] = <<>>
  /\ icall[i] = NoCall
  /\ pendingPTQ' = pendingPTQ \cup (icheck[i] \ {"0x"}) \cup {iaddr[i]}
  /\ rerun' = [rerun EXCEPT ![iaddr[i]] = FALSE]
  /\ ipc' = [ipc EXCEPT ![i] = IF rerun[iaddr[i]] THEN "reset" ELSE "release"]
  /\ inew' = [inew EXCEPT ![i] = {}]
  /\ ibal' = [ibal EXCEPT ![i] = 0]
  /\ inonce' = [inonce EXCEPT ![i] = 0]
  /\ inet' = [inet EXCEPT ![i] = 0]
  /\ ilast' = [ilast EXCEPT ![i] = 0]
  /\ iprev' = [iprev EXCEPT ![i] = FALSE]
  /\ icheck' = [icheck EXCEPT ![i] = {}]
  /\ settled' = [settled EXCEPT ![iaddr[i]] = IF @ \in {"off", "no"} THEN @ ELSE "yes"]
  /\ UNCHANGED <<iaddr, icands, icall>>
  /\ UNCHANGED <<nonceHint, procLock, subLock, safeLow, stdPrice>>
  /\ UNCHANGED <<tokVars, dbVars, nodeVars, utasks, reqVars, sanVars, notes, sent, lockOwner, faults>>

\* 300-306, then 45-51: the pass dispatches the queues it touched; MULTI GET
\* and DEL of the flag in one transaction
ReadClear(i) ==
  /\ ipc[i] \in {"loop", "queueing"}
  /\ icands[i] = <<>>
  /\ icall[i] = NoCall
  /\ pendingPTQ' = pendingPTQ \cup (icheck[i] \ {"0x"})
  /\ rerun' = [rerun EXCEPT ![iaddr[i]] = FALSE]
  /\ ipc' = [ipc EXCEPT ![i] = IF rerun[iaddr[i]] THEN "reset" ELSE "release"]
  /\ inew' = [inew EXCEPT ![i] = {}]
  /\ ibal' = [ibal EXCEPT ![i] = 0]
  /\ inonce' = [inonce EXCEPT ![i] = 0]
  /\ inet' = [inet EXCEPT ![i] = 0]
  /\ ilast' = [ilast EXCEPT ![i] = 0]
  /\ iprev' = [iprev EXCEPT ![i] = FALSE]
  /\ icheck' = [icheck EXCEPT ![i] = {}]
  /\ settled' = [settled EXCEPT ![iaddr[i]] = IF @ \in {"off", "no"} THEN @ ELSE "yes"]
  /\ UNCHANGED <<iaddr, icands, icall>>
  /\ UNCHANGED <<nonceHint, procLock, subLock, safeLow, stdPrice>>
  /\ UNCHANGED <<tokVars, dbVars, nodeVars, utasks, reqVars, sanVars, notes, sent, lockOwner, faults>>

\* 51-54: the flag was set: SET the key again (fresh expiry) and run a pass
ResetExpiry(i) ==
  /\ ipc[i] = "reset"
  /\ procLock' = [procLock EXCEPT ![iaddr[i]] = TRUE]
  /\ lockOwner' = [lockOwner EXCEPT ![iaddr[i]] = i]
  /\ ipc' = [ipc EXCEPT ![i] = "start"]
  /\ UNCHANGED <<nonceHint, rerun, subLock, safeLow, stdPrice>>
  /\ UNCHANGED <<iaddr, icands, inew, ibal, inonce, inet, ilast, iprev, icheck, icall>>
  /\ UNCHANGED <<tokVars, dbVars, nodeVars, taskVars, reqVars, sanVars, notes, sent, faults, settled>>

\* 58: DEL processing_tx_queue:<addr>
Release(i) ==
  /\ ipc[i] = "release"
  /\ procLock' = [procLock EXCEPT ![iaddr[i]] = FALSE]
  /\ lockOwner' = [lockOwner EXCEPT ![iaddr[i]] = 0]
  /\ Retire(i)
  /\ UNCHANGED <<nonceHint, rerun, subLock, safeLow, stdPrice>>
  /\ UNCHANGED <<icands, inew, ibal, inonce, inet, ilast, iprev, icheck, icall>>
  /\ UNCHANGED <<tokVars, dbVars, nodeVars, taskVars, reqVars, sanVars, notes, sent, faults, settled>>

\* the key expires, 120 seconds after it was set, under a pass still running
LockExpire(a) ==
  /\ faults < MaxFaults
  /\ procLock[a]
  /\ \E i \in Invs : iaddr[i] = a /\ ipc[i] \in {"loop", "queueing"}
  /\ procLock' = [procLock EXCEPT ![a] = FALSE]
  /\ lockOwner' = [lockOwner EXCEPT ![a] = 0]
  /\ faults' = faults + 1
  /\ UNCHANGED <<nonceHint, rerun, subLock, safeLow, stdPrice>>
  /\ UNCHANGED <<tokVars, dbVars, nodeVars, taskVars, invVars, reqVars, sanVars, notes, sent, settled>>

\* 37, 41, 55-58: the cache call of an invocation raises; the bare except
\* logs it and the invocation goes on to the DEL at 58
AcquireRaise(i, a) ==
  /\ faults < MaxFaults
  /\ ipc[i] = "idle"
  /\ \A j \in Invs : j < i => ipc[j] # "idle"
  /\ a \in pendingPTQ
  /\ pendingPTQ' = pendingPTQ \ {a}
  /\ iaddr' = [iaddr EXCEPT ![i] = a]
  /\ ipc' = [ipc EXCEPT ![i] = "release"]
  /\ faults' = faults + 1
  /\ UNCHANGED <<icands, inew, ibal, inonce, inet, ilast, iprev, icheck, icall>>
  /\ UNCHANGED <<tokVars, dbVars, cacheVars, nodeVars, utasks, reqVars, sanVars, notes, sent, lockOwner, settled>>

(***************************************************************************)
(* send_transaction (jsonrpc.py 124-235), one request per request          *)
(* transaction, from the lock at 169 on.                                   *)
(***************************************************************************)
LockKey(t) == <<TX[t].from, TX[t].nonce>>

\* RedisLock: SET key NX on entry, raise_when_locked when the key is there
LockIsFree(key) == key \notin subLock

\* the status column of a row inserted without one
InsertedStatus == "unconfirmed"

\* get_balances(address, ignore_pending_recieved=True): the balance the node
\* reports less the cost of the sender's own unconfirmed rows
AvailableBalance(a) ==
  ChainBalance(a, ChainHead)
  - SumOver({u \in TxIds : TX[u].from = a /\ status[u] = "unconfirmed"},
            [u \in TxIds |-> Cost(u)])

\* 175-177: a row of the sender and nonce that is not in error
ExistingRow(t) ==
  \E u \in TxIds : /\ status[u] \notin {"none", "error"}
                   /\ TX[u].from = TX[t].from
                   /\ TX[u].nonce = TX[t].nonce

\* 193-199: the cached nonce, or the node's count when that is greater
CurrentNonce(a) ==
  IF nonceHint[a] = -1 \/ ChainNonce(a, ChainHead) > nonceHint[a]
  THEN ChainNonce(a, ChainHead) ELSE nonceHint[a]

\* create_transaction_skeleton without a nonce (jsonrpc.py 67-77): the cached
\* nonce, or the node's count when nothing is cached or the count is greater
SkeletonNonce(a) ==
  LET nw_nonce == ChainNonce(a, ChainHead)
  IN IF nonceHint[a] = -1 \/ nw_nonce > nonceHint[a] THEN nw_nonce ELSE nonceHint[a]

\* (for comparison: checks that pass every request)
AlwaysOk(t) == "ok"

\* (for comparison: checks that do not look at the funds)
NoFundsCheck(t) ==
  IF ExistingRow(t) THEN "invalid_nonce"
  ELSE IF TX[t].nonce < CurrentNonce(TX[t].from) THEN "invalid_nonce"
  ELSE IF TX[t].nonce > CurrentNonce(TX[t].from) THEN "invalid_nonce"
  ELSE "ok"

\* (for comparison: checks that let a nonce ahead of the current one pass)
NoHighCheck(t) ==
  IF ExistingRow(t) THEN "invalid_nonce"
  ELSE IF AvailableBalance(TX[t].from) < Cost(t) THEN "insufficient_funds"
  ELSE IF TX[t].nonce < CurrentNonce(TX[t].from) THEN "invalid_nonce"
  ELSE "ok"

\* 178-204: what the checks inside the lock answer ("ok": all passed)
CheckAnswer(t) ==
  IF ExistingRow(t) THEN "invalid_nonce"
  ELSE IF AvailableBalance(TX[t].from) < Cost(t) THEN "insufficient_funds"
  ELSE IF TX[t].nonce < CurrentNonce(TX[t].from) THEN "invalid_nonce"
  ELSE IF TX[t].nonce > CurrentNonce(TX[t].from) THEN "invalid_nonce"
  ELSE "ok"

\* 169-171: the request enters the lock of its (sender, nonce), or is refused
ReqBegin(t) ==
  /\ t \in RequestTxs
  /\ rpc[t] = "none"
  /\ IF LockIsFree(LockKey(t))
     THEN /\ subLock' = subLock \cup {LockKey(t)}
          /\ rpc' = [rpc EXCEPT ![t] = "locked"]
          /\ UNCHANGED rres
     ELSE /\ rpc' = [rpc EXCEPT ![t] = "done"]
          /\ rres' = [rres EXCEPT ![t] = "invalid_nonce"]
          /\ UNCHANGED subLock
  /\ UNCHANGED <<nonceHint, procLock, rerun, safeLow, stdPrice>>
  /\ UNCHANGED <<tokVars, dbVars, nodeVars, taskVars, invVars, sanVars, histVars>>

\* 173-204: existing row, funds and nonce are checked; a refusal leaves the lock
ReqCheck(t) ==
  /\ rpc[t] = "locked"
  /\ IF CheckAnswer(t) = "ok"
     THEN /\ rpc' = [rpc EXCEPT ![t] = "checked"]
          /\ UNCHANGED <<rres, subLock>>
     ELSE /\ rpc' = [rpc EXCEPT ![t] = "done"]
          /\ rres' = [rres EXCEPT ![t] = CheckAnswer(t)]
          /\ subLock' = subLock \ {LockKey(t)}
  /\ UNCHANGED <<nonceHint, procLock, rerun, safeLow, stdPrice>>
  /\ UNCHANGED <<tokVars, dbVars, nodeVars, taskVars, invVars, sanVars, histVars>>

\* (for comparison: a request that goes on whatever the node answers)
ReqSendAnyway(t, up) ==
  /\ rpc[t] = "checked"
  /\ rpc' = [rpc EXCEPT ![t] = "sent"]
  /\ UNCHANGED <<tokVars, rres, cacheVars, dbVars, nodeVars, taskVars, invVars, sanVars, histVars>>

\* (for comparison: a request that caches its nonce before it hears from the node)
ReqSendHintFirst(t, up) ==
  /\ rpc[t] = "checked"
  /\ sent' = SentAfter(t)
  /\ nonceHint' = [nonceHint EXCEPT ![TX[t].from] = TX[t].nonce + 1]
  /\ IF up /\ SendRawAnswer(t) = "ok"
     THEN /\ pool' = PoolAfterSend(t)
          /\ accepted' = accepted \cup {t}
          /\ rpc' = [rpc EXCEPT ![t] = "sent"]
          /\ UNCHANGED <<rres, subLock>>
     ELSE /\ rpc' = [rpc EXCEPT ![t] = "done"]
          /\ rres' = [rres EXCEPT ![t] = "unexpected_error"]
          /\ subLock' = subLock \ {LockKey(t)}
          /\ UNCHANGED <<pool, accepted>>
  /\ UNCHANGED <<procLock, rerun, safeLow, stdPrice>>
  /\ UNCHANGED <<tokVars, dbVars, minedAt, taskVars, invVars, sanVars, notes, lockOwner, faults>>
  /\ settled' = SettledAfter({})

\* 206-215: eth_sendRawTransaction; a JsonRPCError ends the request
ReqSend(t, up) ==
  /\ rpc[t] = "checked"
  /\ sent' = SentAfter(t)
  /\ IF up /\ SendRawAnswer(t) = "ok"
     THEN /\ pool' = PoolAfterSend(t)
          /\ accepted' = accepted \cup {t}
          /\ rpc' = [rpc EXCEPT ![t] = "sent"]
          /\ UNCHANGED <<rres, subLock>>
     ELSE /\ rpc' = [rpc EXCEPT ![t] = "done"]
          /\ rres' = [rres EXCEPT ![t] = "unexpected_error"]
          /\ subLock' = subLock \ {LockKey(t)}
          /\ UNCHANGED <<pool, accepted>>
  /\ UNCHANGED <<nonceHint, procLock, rerun, safeLow, stdPrice>>
  /\ UNCHANGED <<tokVars, dbVars, minedAt, taskVars, invVars, sanVars, notes, lockOwner, faults>>
  /\ settled' = SettledAfter({})

\* (for comparison: a request that inserts its row and caches no nonce)
ReqInsertNoHint(t) ==
  /\ rpc[t] = "sent"
  /\ status' = [status EXCEPT ![t] = InsertedStatus]
  /\ subLock' = subLock \ {LockKey(t)}
  /\ rpc' = [rpc EXCEPT ![t] = "done"]
  /\ rres' = [rres EXCEPT ![t] = "ok"]
  /\ UNCHANGED <<blocknumber, lastBlock, nonceHint, procLock, rerun, safeLow, stdPrice>>
  /\ UNCHANGED <<tokVars, nodeVars, taskVars, invVars, sanVars, notes, sent, lockOwner, faults>>
  /\ settled' = SettledAfter({})

\* 217-235: the nonce is cached, the row inserted, the lock left
ReqInsert(t) ==
  /\ rpc[t] = "sent"
  /\ nonceHint' = [nonceHint EXCEPT ![TX[t].from] = TX[t].nonce + 1]
  /\ status' = [status EXCEPT ![t] = InsertedStatus]
  /\ subLock' = subLock \ {LockKey(t)}
  /\ rpc' = [rpc EXCEPT ![t] = "done"]
  /\ rres' = [rres EXCEPT ![t] = "ok"]
  /\ UNCHANGED <<blocknumber, lastBlock, procLock, rerun, safeLow, stdPrice>>
  /\ UNCHANGED <<tokVars, nodeVars, taskVars, invVars, sanVars, notes, sent, lockOwner, faults>>
  /\ settled' = SettledAfter({})

\* a round of a client that lets the server pick the nonce: it asks for a
\* skeleton without a nonce, signs what it gets and submits it, one
\* transaction at a time
RoundBegin(t) ==
  /\ \A u \in RequestTxs \ {t} : rpc[u] \in {"absent", "none", "done"}
  /\ TX[t].nonce = SkeletonNonce(TX[t].from)
  /\ ReqBegin(t)

(***************************************************************************)
(* The block monitor: the next block is ingested, a confirmation is        *)
(* dispatched for each of its transactions that has a row in flight, and   *)
(* last_blocknumber advances.                                              *)
(***************************************************************************)
MonitorBlock ==
  /\ lastBlock < ChainHead
  /\ utasks' = utasks \cup
       {[tx |-> t, st |-> "confirmed", seen |-> "none", retry |-> FALSE] :
          t \in {u \in TxIds : /\ minedAt[u] = lastBlock + 1
                               /\ status[u] \in {"new", "queued", "unconfirmed"}}}
  /\ lastBlock' = lastBlock + 1
  /\ UNCHANGED <<tokVars, status, blocknumber, cacheVars, nodeVars, pendingPTQ, invVars, reqVars, sanVars, notes, sent, lockOwner, faults>>
  /\ settled' = SettledAfter({})

(***************************************************************************)
(* sanity_check (manager.py 478-608).  The sweep visits an address and a   *)
(* row at a time; its update_transaction calls are cut like all others.    *)
(***************************************************************************)
\* 481-492: the senders of signed rows in flight (whichever of them are old)
SweptAddrs ==
  {TX[t].from : t \in {u \in TxIds : TX[u].signed /\ status[u] \in {"unconfirmed", "queued", "new"}}}

\* 502-506
QueuedRows(a) == {t \in TxIds : TX[t].from = a /\ TX[t].signed /\ status[t] \in {"new", "queued"}}

\* 511-515
IncomingInFlight(a) == {t \in TxIds : TX[t].to = a /\ status[t] \in {"unconfirmed", "queued", "new"}}

\* 543-547
UnconfirmedSigned(a) == {t \in TxIds : TX[t].from = a /\ TX[t].signed /\ status[t] = "unconfirmed"}

\* 600-605: the queues the sweep dispatches for a row it looked at
SanityQueues(t) ==
  IF TX[t].signed THEN {TX[t].from, TX[t].to} \ {"0x"} ELSE {TX[t].to}

\* 517-520: queued rows and nothing on its way in: process the queue
SanityNoIncoming(a) ==
  /\ a \in SweptAddrs
  /\ scall = NoCall
  /\ visits < MaxVisits
  /\ visits' = visits + 1
  /\ QueuedRows(a) # {}
  /\ IncomingInFlight(a) = {}
  /\ pendingPTQ' = pendingPTQ \cup {a}
  /\ UNCHANGED <<tokVars, dbVars, cacheVars, nodeVars, utasks, invVars, reqVars, scall, histVars>>

\* 523-537: an incoming row without a signature is looked up on the node
SanityIncoming(a, t, view) ==
  /\ a \in SweptAddrs
  /\ scall = NoCall
  /\ visits < MaxVisits
  /\ visits' = visits + 1
  /\ QueuedRows(a) # {}
  /\ t \in IncomingInFlight(a)
  /\ ~TX[t].signed
  /\ view \in TxViews(t)
  /\ view # "pending"
  /\ scall' = UpdateRead(t, IF view = "none" THEN "error" ELSE "confirmed")
  /\ pendingPTQ' = IF scall' = NoCall THEN pendingPTQ \cup SanityQueues(t) ELSE pendingPTQ
  /\ UNCHANGED <<tokVars, dbVars, cacheVars, nodeVars, utasks, invVars, reqVars, histVars>>

\* (for comparison: a sweep that sends whatever it rebuilt)
HashNotCompared(t) == TRUE

\* 580: calculate_transaction_hash(tx) is the hash stored in the row
HashMatches(t) == TX[t].intact

\* 565-587: an unconfirmed row the node does not know is sent again
SanityResend(a, t, up) ==
  /\ a \in SweptAddrs
  /\ scall = NoCall
  /\ visits < MaxVisits
  /\ visits' = visits + 1
  /\ QueuedRows(a) = {}
  /\ t \in UnconfirmedSigned(a)
  /\ "none" \in TxViews(t)
  /\ HashMatches(t)
  /\ sent' = SentAfter(t)
  /\ IF up /\ SendRawAnswer(t) = "ok"
     THEN /\ pool' = PoolAfterSend(t)
          /\ accepted' = accepted \cup {t}
          /\ pendingPTQ' = pendingPTQ \cup {TX[t].from}
     ELSE UNCHANGED <<pool, accepted, pendingPTQ>>
  /\ UNCHANGED <<tokVars, dbVars, cacheVars, minedAt, utasks, invVars, reqVars, scall, notes, lockOwner, faults>>
  /\ settled' = SettledAfter({})

\* 589-593: an unconfirmed row the node reports in a block is confirmed
SanityConfirm(a, t) ==
  /\ a \in SweptAddrs
  /\ scall = NoCall
  /\ visits < MaxVisits
  /\ visits' = visits + 1
  /\ QueuedRows(a) = {}
  /\ t \in UnconfirmedSigned(a)
  /\ "mined" \in TxViews(t)
  /\ scall' = UpdateRead(t, "confirmed")
  /\ pendingPTQ' = IF scall' = NoCall THEN pendingPTQ \cup SanityQueues(t) ELSE pendingPTQ
  /\ UNCHANGED <<tokVars, dbVars, cacheVars, nodeVars, utasks, invVars, reqVars, histVars>>

\* 580-581, 595-597: an unconfirmed row the node reports without a block
\* number, or one whose rebuilt transaction has another hash, is left alone
SanityLeave(a, t, view) ==
  /\ a \in SweptAddrs
  /\ scall = NoCall
  /\ visits < MaxVisits
  /\ visits' = visits + 1
  /\ QueuedRows(a) = {}
  /\ t \in UnconfirmedSigned(a)
  /\ view \in TxViews(t)
  /\ view = "pending" \/ (view = "none" /\ ~HashMatches(t))
  /\ UNCHANGED <<tokVars, dbVars, cacheVars, nodeVars, taskVars, invVars, reqVars, scall, histVars>>

\* the update_transaction call of the sweep writes
SanityWrite(view, giveUp) ==
  /\ scall # NoCall
  /\ view \in TxViews(scall.tx)
  /\ UpdateWrite(scall, view, giveUp, utasks, SanityQueues(scall.tx))
  /\ scall' = NoCall
  /\ UNCHANGED visits
  /\ UNCHANGED <<lastBlock, cacheVars, nodeVars, invVars, reqVars, sent, lockOwner, faults>>
  /\ settled' = SettledAfter({})

(***************************************************************************)
(* update_default_gas_price (manager.py 611-650).  The amounts of the      *)
(* model are counted in units of 100000000 wei, the value of one unit of   *)
(* the oracle's figures (Gwei x 10).                                       *)
(***************************************************************************)
\* 1000000000 wei
Gwei == 10

\* a field of the oracle's answer: missing, not a float, or a float given in
\* tenths
Figures ==
  {[kind |-> k, tenths |-> 0] : k \in {"missing", "text"}}
  \cup {[kind |-> "float", tenths |-> x] : x \in {5, 25}}

\* 621-627, 629-635: the field in wei, -1 for None
FigureWei(f) == IF f.kind = "float" THEN f.tenths \div 10 ELSE -1

\* (for comparison: a refresh that stores the oracle's average as it is)
StandardAsQuoted(safelow, standard) == standard

\* 637-640: a safe-low price above the standard price replaces it, padded
StandardAfter(safelow, standard) == IF safelow > standard THEN safelow + Gwei ELSE standard

\* 640, 642-644: the comparison raises for None, and then nothing is stored
RefreshStores(avg, low, fetched) == fetched /\ FigureWei(avg) # -1 /\ FigureWei(low) # -1

\* one execution of update_default_gas_price
UpdateDefaultGasPrice(avg, low, fetched) ==
  /\ IF RefreshStores(avg, low, fetched)
     THEN /\ safeLow' = FigureWei(low)
          /\ stdPrice' = StandardAfter(FigureWei(low), FigureWei(avg))
     ELSE UNCHANGED <<safeLow, stdPrice>>
  /\ UNCHANGED <<nonceHint, procLock, rerun, subLock>>
  /\ UNCHANGED <<tokVars, dbVars, nodeVars, taskVars, invVars, reqVars, sanVars, notes, sent, lockOwner, faults>>
  /\ settled' = SettledAfter({})

\* the oracle answers with its figures, or the fetch fails (616) and there
\* are none
NoFigure == [kind |-> "missing", tenths |-> 0]

GasNext ==
  \/ \E avg \in Figures, low \in Figures : UpdateDefaultGasPrice(avg, low, TRUE)
  \/ UpdateDefaultGasPrice(NoFigure, NoFigure, FALSE)

(***************************************************************************)
(* The system.                                                             *)
(***************************************************************************)
\* the transactions in play: at most MaxLive, the backlog of at most
\* MaxQueues senders, and no row of it without the sender's rows of lower nonce
LiveSets ==
  {L \in SUBSET TxIds :
     /\ Cardinality(L) <= MaxLive
     /\ L \cap Overwrites = {}
     /\ L \subseteq QueueTxs \cup RequestTxs
     /\ Cardinality({TX[t].from : t \in L \cap QueueTxs}) <= MaxQueues
     /\ \A t \in L \cap QueueTxs : \A u \in QueueTxs :
          TX[u].from = TX[t].from /\ TX[u].nonce < TX[t].nonce => u \in L}

\* no transaction has token rows, no address has a registration
NoTokens ==
  /\ tokrows = [t \in TxIds |-> <<>>]
  /\ logs = [t \in TxIds |-> {}]
  /\ regs = [a \in Addrs \cup {ZeroAddr} |-> {}]
  /\ outbox = {}
  /\ toWs = {}
  /\ wsSeen = {}
  /\ toPush = {}
  /\ tokmsgs = {}

\* the intake has stored a backlog of signed rows, all new, and dispatched
\* the queues of their senders; clients are about to make their requests;
\* nothing is cached, nothing is mined, no handler runs
Backlog(L) ==
  /\ status = [t \in TxIds |-> IF t \in L \cap SignedTxs THEN "new" ELSE "none"]
  /\ rpc = [t \in TxIds |-> IF t \in L \cap RequestTxs THEN "none" ELSE "absent"]
  /\ pendingPTQ = {TX[t].from : t \in L \cap SignedTxs}
  /\ blocknumber = [t \in TxIds |-> 0]
  /\ lastBlock = 0
  /\ nonceHint = [a \in Addrs |-> -1]
  /\ procLock = [a \in Addrs |-> FALSE]
  /\ rerun = [a \in Addrs |-> FALSE]
  /\ subLock = {}
  /\ safeLow \in {0, 2}
  /\ stdPrice = 0
  /\ pool = {}
  /\ minedAt = [t \in TxIds |-> 0]
  /\ accepted = {}
  /\ utasks = {}
  /\ ipc = [i \in Invs |-> "idle"]
  /\ iaddr = [i \in Invs |-> "A"]
  /\ icands = [i \in Invs |-> <<>>]
  /\ inew = [i \in Invs |-> {}]
  /\ ibal = [i \in Invs |-> 0]
  /\ inonce = [i \in Invs |-> 0]
  /\ inet = [i \in Invs |-> 0]
  /\ ilast = [i \in Invs |-> 0]
  /\ iprev = [i \in Invs |-> FALSE]
  /\ icheck = [i \in Invs |-> {}]
  /\ icall = [i \in Invs |-> NoCall]
  /\ rres = [t \in TxIds |-> "none"]
  /\ scall = NoCall
  /\ visits = 0
  /\ notes = [t \in TxIds |-> <<>>]
  /\ sent = [a \in Addrs |-> <<>>]
  /\ lockOwner = [a \in Addrs |-> 0]
  /\ faults = 0

InitWith(L) == Backlog(L) /\ NoTokens

\* the history of undisturbed passes is not recorded, or recorded from the start
Unrecorded == settled = [a \in Addrs |-> "off"]

Recorded == settled = [a \in Addrs |-> "no"]

\* the request made next to a backlog: A's first transaction at the higher
\* gas price
Outbidding == {t \in RequestTxs : TX[t].from = "A" /\ TX[t].nonce = 0 /\ TX[t].gas_price > 1}

\* a backlog of at most MaxBacklog rows with that request, or requests alone
Init ==
  \E L \in LiveSets :
    /\ Cardinality(L \cap QueueTxs) <= MaxBacklog
    /\ L \cap QueueTxs # {} => L \cap RequestTxs \subseteq Outbidding
    /\ InitWith(L)
    /\ Unrecorded

NodeNext ==
  \/ \E t \in TxIds : Mine(t)
  \/ \E t \in TxIds : NodeDrop(t)

QueueNext ==
  \/ \E i \in Invs, a \in Addrs : Acquire(i, a)
  \/ \E i \in Invs : SetFlag(i)
  \/ \E i \in Invs : PassStart(i)
  \/ \E i \in Invs, up \in BOOLEAN, view \in {"none", "pending", "mined"}, old \in TxIds \cup {0} :
       PassStep(i, up, view, old)
  \/ \E i \in Invs : QueueStep(i)
  \/ \E i \in Invs, view \in {"none", "pending", "mined"}, giveUp \in BOOLEAN : PassWrite(i, view, giveUp)
  \/ \E i \in Invs : ReadClear(i)
  \/ \E i \in Invs : ResetExpiry(i)
  \/ \E i \in Invs : Release(i)

UpdateNext ==
  \/ \E c \in utasks : UpdTaskRead(c)
  \/ \E c \in utasks, view \in {"none", "pending", "mined"}, giveUp \in BOOLEAN : UpdTaskWrite(c, view, giveUp)

MonitorNext == MonitorBlock

IntakeNext ==
  \/ \E t \in RequestTxs : ReqBegin(t)
  \/ \E t \in RequestTxs : ReqCheck(t)
  \/ \E t \in RequestTxs, up \in BOOLEAN : ReqSend(t, up)
  \/ \E t \in RequestTxs : ReqInsert(t)

SanityIntakeNext ==
  \E a \in Addrs, t \in TxIds, view \in {"none", "mined"} : SanityIncoming(a, t, view)

SanityNext ==
  \/ \E a \in Addrs : SanityNoIncoming(a)
  \/ \E a \in Addrs, t \in TxIds, up \in BOOLEAN : SanityResend(a, t, up)
  \/ \E a \in Addrs, t \in TxIds : SanityConfirm(a, t)
  \/ \E a \in Addrs, t \in TxIds, view \in {"none", "pending"} : SanityLeave(a, t, view)
  \/ \E view \in {"none", "pending", "mined"}, giveUp \in BOOLEAN : SanityWrite(view, giveUp)

Next ==
  NodeNext \/ QueueNext \/ UpdateNext \/ MonitorNext \/ IntakeNext \/ SanityIntakeNext \/ SanityNext

Spec == Init /\ [][Next]_vars

\* the queue of the manager on a cache that may fail
FaultNext ==
  \/ \E a \in Addrs : LockExpire(a)
  \/ \E i \in Invs, a \in Addrs : AcquireRaise(i, a)

\* no client makes a request, and the block monitor is not running
QueueInit == \E L \in LiveSets : L \subseteq QueueTxs /\ InitWith(L) /\ Unrecorded

SpecFaults == QueueInit /\ [][NodeNext \/ QueueNext \/ UpdateNext \/ SanityNext \/ FaultNext]_vars

\* the same with a client: the queue holds two rows of a sender, and a
\* request comes in for the nonce of the first
RivalSet == {t \in (QueueTxs \cup RequestTxs) \ Overwrites : TX[t].from = "A" /\ (TX[t].signed \/ TX[t].gas_price > 1)}

RivalInit == InitWith(RivalSet) /\ Unrecorded

\* the time before any of these transactions is in a block: the passes with
\* the update_transaction calls they await, the request, and the sweep, which
\* finds no row to reconcile
RivalNext ==
  \/ QueueNext \/ IntakeNext \/ FaultNext
  \/ \E a \in Addrs : SanityNoIncoming(a)
  \/ \E a \in Addrs, t \in TxIds, up \in BOOLEAN : SanityResend(a, t, up)
  \/ \E a \in Addrs, t \in TxIds, view \in {"none", "pending"} : SanityLeave(a, t, view)

SpecFaultsIntake == RivalInit /\ [][RivalNext]_vars

\* a client sends one transaction after the other with server-picked nonces
RoundSet == {t \in RequestTxs : TX[t].from = "A" /\ TX[t].gas_price = 1}

RoundInit == InitWith(RoundSet) /\ Unrecorded

RoundNext ==
  \/ \E t \in RequestTxs : RoundBegin(t)
  \/ \E t \in RequestTxs : ReqCheck(t)
  \/ \E t \in RequestTxs, up \in BOOLEAN : ReqSend(t, up)
  \/ \E t \in RequestTxs : ReqInsert(t)

SpecRounds == RoundInit /\ [][NodeNext \/ RoundNext \/ MonitorNext \/ UpdateNext]_vars

\* the queue alone, with the history of undisturbed passes: the backlog of
\* one sender, or a chain of payments, A to B and B back to A
ChainSet == {t \in QueueTxs : TX[t].nonce = 0}

TwiceInit ==
  \E L \in LiveSets \cup {ChainSet} : L \subseteq QueueTxs /\ InitWith(L) /\ Recorded

SpecTwice == TwiceInit /\ [][NodeNext \/ QueueNext \/ UpdateNext \/ MonitorNext]_vars

\* the chain of payments alone, no safe-low price cached, and a node that is
\* in reach of every eth_sendRawTransaction call and keeps what it accepted
ChainInit == InitWith(ChainSet) /\ safeLow = 0 /\ Unrecorded

\* the steps of invocation i of process_transaction_queue
InvocationNext(i) ==
  \/ \E a \in Addrs : Acquire(i, a)
  \/ SetFlag(i)
  \/ PassStart(i)
  \/ \E view \in {"none", "pending", "mined"}, old \in TxIds \cup {0} : PassStep(i, TRUE, view, old)
  \/ QueueStep(i)
  \/ \E view \in {"none", "pending", "mined"}, giveUp \in BOOLEAN : PassWrite(i, view, giveUp)
  \/ ReadClear(i)
  \/ ResetExpiry(i)
  \/ Release(i)

ChainNext ==
  \/ \E t \in TxIds : Mine(t)
  \/ \E i \in Invs : InvocationNext(i)
  \/ UpdateNext
  \/ MonitorNext

\* every dispatched task is taken by a worker and every coroutine that can
\* go on does; the block monitor keeps polling
ChainFairness ==
  /\ \A i \in Invs : WF_vars(InvocationNext(i))
  /\ WF_vars(UpdateNext)
  /\ WF_vars(MonitorNext)

SpecChain == ChainInit /\ [][ChainNext]_vars /\ ChainFairness

\* 607-608: the sweep dispatches its next execution, 60 seconds later
SweepAgain ==
  /\ scall = NoCall
  /\ visits = MaxVisits
  /\ visits' = 0
  /\ UNCHANGED <<tokVars, dbVars, cacheVars, nodeVars, taskVars, invVars, reqVars, scall, histVars>>

\* one signed row of one sender, and a sweep that runs again and again; the
\* block monitor is not running, a row in a block is reconciled by the sweep
SweepInit == \E t \in QueueTxs : TX[t].nonce = 0 /\ InitWith({t}) /\ Unrecorded

SweepsNext == NodeNext \/ QueueNext \/ UpdateNext \/ SanityNext \/ SweepAgain

\* the dispatched tasks are run; every execution of the sweep dispatches the
\* next one, and an execution goes through all the rows it selected
SweepsFairness ==
  /\ WF_vars(QueueNext)
  /\ WF_vars(UpdateNext)
  /\ WF_vars(SweepAgain)
  /\ SF_vars(\E a \in Addrs, t \in TxIds, up \in BOOLEAN : SanityResend(a, t, up))

SpecSweeps == SweepInit /\ [][SweepsNext]_vars /\ SweepsFairness

\* a call of the sweep that is not inside a try raises: one of its SELECTs
\* (480-492, 502-506, 511-515, 543-547), or the update_transaction call it
\* awaits (533, 536, 591) at its own SELECT, UPDATE or node call.  The
\* execution ends there, before 607-608
SanityRaise ==
  /\ faults < MaxFaults
  /\ visits <= MaxVisits
  /\ visits' = MaxVisits + 1
  /\ scall' = NoCall
  /\ faults' = faults + 1
  /\ UNCHANGED <<tokVars, dbVars, cacheVars, nodeVars, taskVars, invVars, reqVars, notes, sent, lockOwner, settled>>

\* the sweep that runs again and again on a database and a node that may
\* fail, over the first row of A; the block monitor is not running
SweepFaultsInit == InitWith({t \in QueueTxs : TX[t].from = "A" /\ TX[t].nonce = 0}) /\ Unrecorded

SweepFaultsNext == NodeNext \/ QueueNext \/ UpdateNext \/ SanityNext \/ SweepAgain \/ SanityRaise

SpecSweepFaults == SweepFaultsInit /\ [][SweepFaultsNext]_vars

\* a signed row of B in the queue and a payment to B that a client of A
\* requests; no safe-low price is cached
WaitSet ==
  {t \in QueueTxs : TX[t].from = "B"}
  \cup {t \in RequestTxs : TX[t].from = "A" /\ TX[t].nonce = 0 /\ TX[t].gas_price = 1}

WaitInit == InitWith(WaitSet) /\ safeLow = 0 /\ Unrecorded

\* B never has an unconfirmed row here, so the sweep has nothing to send again
WaitNext ==
  \/ NodeNext \/ QueueNext \/ UpdateNext \/ IntakeNext \/ SanityIntakeNext \/ MonitorNext
  \/ \E a \in Addrs : SanityNoIncoming(a)
  \/ \E view \in {"none", "pending", "mined"}, giveUp \in BOOLEAN : SanityWrite(view, giveUp)

\* the dispatched tasks are run; the node, the monitor, the clients and the
\* sweep may stay as they are
WaitFairness == WF_vars(QueueNext) /\ WF_vars(UpdateNext)

SpecWait == WaitInit /\ [][WaitNext]_vars /\ WaitFairness

\* A transaction with token rows: the rows, the logs its receipt will hold
\* and the registrations of the addresses are drawn from small sets.
TokenTxs == {t \in QueueTxs : TX[t].from = "A" /\ TX[t].nonce = 0}

TokenRowSet ==
  {[from |-> "A", to |-> "B", weth |-> FALSE, status |-> "new"],
   [from |-> "A", to |-> ZeroAddr, weth |-> TRUE, status |-> "new"],
   [from |-> ZeroAddr, to |-> "A", weth |-> TRUE, status |-> "new"]}

TokenRowChoices ==
  {<<r>> : r \in TokenRowSet}
  \cup {<<q[1], q[2]>> : q \in {p \in TokenRowSet \X TokenRowSet :
                                   p[1] # p[2] /\ p[1].to = "B" /\ MaxTokenRows >= 2}}

LogSet ==
  {[topic |-> "Transfer", topics |-> 3, a1 |-> "A", a2 |-> "B", weth |-> FALSE],
   [topic |-> "Transfer", topics |-> 3, a1 |-> "B", a2 |-> "A", weth |-> FALSE],
   [topic |-> "Approval", topics |-> 3, a1 |-> "A", a2 |-> "B", weth |-> FALSE],
   [topic |-> "Deposit", topics |-> 2, a1 |-> "A", a2 |-> "", weth |-> TRUE],
   [topic |-> "Withdrawal", topics |-> 2, a1 |-> "A", a2 |-> "", weth |-> TRUE],
   [topic |-> "Deposit", topics |-> 2, a1 |-> "A", a2 |-> "", weth |-> FALSE]}

MaxLogs == 2

RegChoices ==
  {r \in [Addrs \cup {ZeroAddr} -> {{}, {"ws"}, {"apn"}, {"ws", "gcm"}}] :
     /\ r[ZeroAddr] = {}
     /\ <<r["A"], r["B"]>> \in {<<{"apn"}, {"ws"}>>, <<{"ws"}, {"apn"}>>, <<{"ws", "gcm"}, {}>>}}

TokenInit ==
  /\ \E t \in TokenTxs : Backlog({t}) /\ tokrows \in {[u \in TxIds |-> IF u = t THEN rows ELSE <<>>] : rows \in TokenRowChoices}
  /\ safeLow = 0
  /\ Unrecorded
  /\ logs \in {[u \in TxIds |-> IF tokrows[u] # <<>> THEN L ELSE {}] : L \in {M \in SUBSET LogSet : Cardinality(M) <= MaxLogs}}
  /\ regs \in RegChoices
  /\ outbox = {}
  /\ toWs = {}
  /\ wsSeen = {}
  /\ toPush = {}
  /\ tokmsgs = {}

NotifyNext ==
  \/ \E n \in outbox : SendNotification(n)
  \/ \E n \in toWs : WsDeliver(n)

\* the steps of a worker that handles one process_transaction_queue task
\* after the other
WorkerNext ==
  \/ \E a \in Addrs : Acquire(1, a)
  \/ PassStart(1)
  \/ \E view \in {"none", "pending", "mined"}, old \in TxIds \cup {0} : PassStep(1, TRUE, view, old)
  \/ \E view \in {"none", "pending", "mined"}, giveUp \in BOOLEAN : PassWrite(1, view, giveUp)
  \/ ReadClear(1)
  \/ Release(1)

TokenNext == (\E t \in TxIds : Mine(t)) \/ WorkerNext \/ UpdateNext \/ MonitorNext \/ NotifyNext

SpecTokens == TokenInit /\ [][TokenNext]_vars

\* the same with every dispatched task run: the worker, the update tasks and
\* the notification tasks are served, the node mines what it holds and the
\* monitor reads every block
TokenFairness ==
  /\ WF_vars(\E t \in TxIds : Mine(t))
  /\ WF_vars(WorkerNext)
  /\ WF_vars(UpdateNext)
  /\ WF_vars(MonitorNext)
  /\ WF_vars(NotifyNext)

SpecTokensFair == TokenInit /\ [][TokenNext]_vars /\ TokenFairness

\* A backlog in which a signed row overwrites another: the two rows alone
\* (the nonce before them is missing), or behind the row of that nonce.
OverwriteSets ==
  {L \in SUBSET QueueTxs :
     /\ L \cap Overwrites # {}
     /\ \A t \in L : TX[t].from = "A"
     /\ \A t \in L : \A u \in QueueTxs : TX[u].from = "A" /\ TX[u].nonce = TX[t].nonce => u \in L}

OverwriteInit == \E L \in OverwriteSets : InitWith(L) /\ Unrecorded

SpecOverwrite == OverwriteInit /\ [][NodeNext \/ QueueNext \/ UpdateNext \/ MonitorNext]_vars

\* An address that is also used outside the service: A has a signed row for
\* nonce 1 in the queue, a client requests a transaction with nonce 0, and
\* the owner of A sends the other transactions of the model through another
\* client.
OutsideSet ==
  {t \in (QueueTxs \cup RequestTxs) \ Overwrites :
     /\ TX[t].from = "A"
     /\ \/ TX[t].signed /\ TX[t].nonce = 1
        \/ ~TX[t].signed /\ TX[t].nonce = 0 /\ TX[t].gas_price > 1}

OutsideInit == InitWith(OutsideSet) /\ Unrecorded

OutsideNext ==
  \/ NodeNext
  \/ \E t \in TxIds : OutsideSend(t)
  \/ QueueNext
  \/ UpdateNext
  \/ MonitorNext
  \/ IntakeNext

SpecOutside == OutsideInit /\ [][OutsideNext]_vars

\* A backlog of two signed rows of A held back by a cached safe-low price,
\* with the oracle's figures changing and a cache that may fail
PriceInit == InitWith({t \in QueueTxs \ Overwrites : TX[t].from = "A"}) /\ safeLow = 2 /\ Unrecorded

SpecPrices == PriceInit /\ [][NodeNext \/ QueueNext \/ UpdateNext \/ FaultNext \/ GasNext]_vars

\* two rows of A that pay B, or the first of them and a row of B whose stored
\* hash is not the hash of the transaction its columns make; no client, no
\* monitor
GarbledSet == {t \in SignedTxs \ Overwrites : TX[t].to # "0x" /\ (TX[t].from = "A" \/ ~TX[t].intact)}

GarbledSets == {{t \in GarbledSet : TX[t].intact}, {t \in GarbledSet : TX[t].nonce = 0}}

GarbledInit == \E L \in GarbledSets : InitWith(L) /\ safeLow = 0 /\ Unrecorded

GarbledNext ==
  \/ NodeNext \/ QueueNext \/ UpdateNext
  \/ \E a \in Addrs : SanityNoIncoming(a)
  \/ \E a \in Addrs, t \in TxIds, up \in BOOLEAN : SanityResend(a, t, up)
  \/ \E a \in Addrs, t \in TxIds : SanityConfirm(a, t)
  \/ \E a \in Addrs, t \in TxIds, view \in {"none", "pending"} : SanityLeave(a, t, view)
  \/ \E view \in {"none", "pending", "mined"}, giveUp \in BOOLEAN : SanityWrite(view, giveUp)

SpecGarbled == GarbledInit /\ [][GarbledNext]_vars

\* a contract deployment of A; no client
DeploySet == {t \in SignedTxs : TX[t].from = "A" /\ TX[t].to = "0x"}

DeployInit == InitWith(DeploySet) /\ Unrecorded

DeployNext ==
  \/ NodeNext \/ QueueNext \/ UpdateNext \/ MonitorNext
  \/ \E a \in Addrs : SanityNoIncoming(a)
  \/ \E a \in Addrs, t \in TxIds, up \in BOOLEAN : SanityResend(a, t, up)
  \/ \E a \in Addrs, t \in TxIds : SanityConfirm(a, t)
  \/ \E a \in Addrs, t \in TxIds, view \in {"none", "pending"} : SanityLeave(a, t, view)
  \/ \E view \in {"none", "pending", "mined"}, giveUp \in BOOLEAN : SanityWrite(view, giveUp)

SpecDeploy == DeployInit /\ [][DeployNext]_vars

(***************************************************************************)
(* Properties.                                                             *)
(***************************************************************************)
SameKey(t, u) == TX[t].from = TX[u].from /\ TX[t].nonce = TX[u].nonce

Stored(t) == status[t] # "none"

\* C1: for every (from_address, nonce) pair at most one transaction row has a
\* status other than 'error', whatever submissions, passes, updates and
\* sweeps have run.
C1_OneLiveRowPerNonce ==
  \A t, u \in TxIds :
    (t # u /\ SameKey(t, u) /\ Stored(t) /\ Stored(u)) =>
      (status[t] = "error" \/ status[u] = "error")

\* the requests made for the (sender, nonce) of t
Rivals(t) == {u \in RequestTxs : rpc[u] # "absent" /\ SameKey(t, u)}

AllAnswered(R) == \A u \in R : rpc[u] = "done"

Accepted(R) == {u \in R : rres[u] = "ok"}

C3_SentInNonceOrder ==
  \A a \in Addrs : \A k, l \in 1..Len(sent[a]) :
    k < l => TX[sent[a][k]].nonce <= TX[sent[a][l]].nonce

\* the invocations inside _process_transaction_queue for an address
InPass(a) == {i \in Invs : iaddr[i] = a /\ ipc[i] \in {"loop", "queueing"}}

\* C4: for every address at most one process_transaction_queue invocation
\* is executing a pass, however many invocations run.
C4_OnePassPerAddress == \A a \in Addrs : Cardinality(InPass(a)) <= 1

\* C5: an invocation that finds the lock held sets should_re_run and returns
\* without a pass and without touching a row; the holder, after each pass,
\* reads and clears the flag in one step and runs another pass if and only
\* if the flag was set.
C5_RerunProtocol ==
  [][\A i \in Invs :
       /\ (ipc[i] = "idle" /\ ipc'[i] = "setflag") => procLock[iaddr'[i]]
       /\ (ipc[i] = "idle" /\ ipc'[i] = "start") => ~procLock[iaddr'[i]]
       /\ (ipc[i] = "setflag" /\ ipc'[i] # "setflag") =>
            /\ ipc'[i] = "idle"
            /\ rerun'[iaddr[i]]
            /\ status' = status /\ blocknumber' = blocknumber
            /\ pool' = pool /\ notes' = notes
       /\ (ipc[i] \in {"loop", "queueing"} /\ ipc'[i] \notin {"loop", "queueing"}) =>
            /\ ~rerun'[iaddr[i]]
            /\ ipc'[i] = IF rerun[iaddr[i]] THEN "reset" ELSE "release"
       /\ (ipc[i] = "reset" /\ ipc'[i] # "reset") => ipc'[i] = "start"
       /\ (ipc[i] = "release" /\ ipc'[i] # "release") => ipc'[i] = "idle"
       /\ (ipc[i] = "start" /\ ipc'[i] # "start") => ipc'[i] = "loop"
    ]_vars

\* C5 at work: the holder found the flag another invocation had set and is
\* about to run again
C5_Witness == \E i \in Invs : ipc[i] = "reset"

\* C6: a row that is 'confirmed' keeps its status and its blocknumber,
\* whatever update_transaction is called with.
C6_ConfirmedIsFinal ==
  [][\A t \in TxIds :
       status[t] = "confirmed" =>
         status'[t] = "confirmed" /\ blocknumber'[t] = blocknumber[t]]_vars

\* C7: a row that is 'error' never changes its status again.
C7_ErrorIsFinal ==
  [][\A t \in TxIds : status[t] = "error" => status'[t] = "error"]_vars

\* C8: a 'confirmed' row has a blocknumber, the one the node reports for its
\* hash; 'confirmed' is never stored for a transaction the node has not in a
\* block.
C8_ConfirmedHasBlock ==
  \A t \in TxIds :
    status[t] = "confirmed" =>
      /\ minedAt[t] # 0
      /\ blocknumber[t] # 0
      /\ blocknumber[t] = minedAt[t]

\* C8 at work: a row was confirmed
C8_Witness == \E t \in TxIds : status[t] = "confirmed" /\ blocknumber[t] = minedAt[t]

\* C9 as stated: an 'unconfirmed' row carries a signature and its raw
\* transaction was accepted by the node at least once.
C9_UnconfirmedSignedAccepted ==
  \A t \in TxIds : status[t] = "unconfirmed" => TX[t].signed /\ t \in accepted

\* C9 amended: the raw transaction of an 'unconfirmed' row was accepted by
\* the node at least once; the row carries a signature if it came through
\* the queue, and none if send_transaction stored it.
C9_UnconfirmedAccepted ==
  \A t \in TxIds :
    status[t] = "unconfirmed" =>
      /\ t \in accepted
      /\ TX[t].signed <=> rpc[t] = "absent"
      /\ ~TX[t].signed <=> rres[t] = "ok"

\* C9 at work: an 'unconfirmed' row that send_transaction stored, without
\* a signature, after the node accepted its transaction
C9_Witness ==
  \E t \in RequestTxs : status[t] = "unconfirmed" /\ t \in accepted /\ ~TX[t].signed

\* C10: a row of sender A goes from 'new' or 'queued' to 'unconfirmed' only
\* in a step of the invocation that holds A's processing lock.
C10_HolderSends ==
  [][\A t \in TxIds :
       (status[t] \in {"new", "queued"} /\ status'[t] = "unconfirmed") =>
         \E i \in Invs :
           /\ iaddr[i] = TX[t].from
           /\ ipc[i] \in {"loop", "queueing"}
           /\ icall[i].tx = t /\ icall'[i] = NoCall
           /\ procLock[TX[t].from]
           /\ lockOwner[TX[t].from] = i]_vars

\* max(cached nonce hint, chain transaction count) of an address
MaxHintCount(a) ==
  LET count == Cardinality({t \in TxIds : minedAt[t] # 0 /\ TX[t].from = a})
  IN IF nonceHint[a] > count THEN nonceHint[a] ELSE count

\* request t leaves the checks of send_transaction in this step
Checked(t) == rpc[t] = "locked" /\ rpc'[t] # "locked"

\* C11 as stated: a request passes the checks only with the nonce
\* max(cached hint, chain count); with any other nonce it is rejected as
\* 'invalid_nonce'; a rejected request sends nothing, inserts no row and
\* leaves the hint as it was.
C11_NonceMustBeCurrent ==
  [][\A t \in RequestTxs :
       Checked(t) =>
         /\ rpc'[t] = "checked" => TX[t].nonce = MaxHintCount(TX[t].from)
         /\ TX[t].nonce # MaxHintCount(TX[t].from) =>
              rpc'[t] = "done" /\ rres'[t] = "invalid_nonce"
         /\ rpc'[t] = "done" =>
              /\ pool' = pool /\ accepted' = accepted /\ sent' = sent
              /\ status' = status /\ nonceHint' = nonceHint]_vars

\* C11 amended: the same, but a request with another nonce that the sender
\* cannot pay for is rejected as 'insufficient_funds', the check of the
\* funds coming first.
C11_NonceMustBeCurrentIfFunded ==
  [][\A t \in RequestTxs :
       Checked(t) =>
         /\ rpc'[t] = "checked" => TX[t].nonce = MaxHintCount(TX[t].from)
         /\ TX[t].nonce # MaxHintCount(TX[t].from) =>
              /\ rpc'[t] = "done"
              /\ rres'[t] = IF ExistingRow(t) \/ AvailableBalance(TX[t].from) >= Cost(t)
                            THEN "invalid_nonce" ELSE "insufficient_funds"
         /\ rpc'[t] = "done" =>
              /\ pool' = pool /\ accepted' = accepted /\ sent' = sent
              /\ status' = status /\ nonceHint' = nonceHint]_vars

\* C11 at work: a request was accepted and one with a nonce too high was
\* rejected as 'invalid_nonce' and stored no row
C11_Witness ==
  \E t, u \in RequestTxs :
    /\ rres[t] = "ok" /\ rres[u] = "invalid_nonce"
    /\ TX[u].from = TX[t].from /\ TX[u].nonce > TX[t].nonce
    /\ status[u] = "none"

\* request t is accepted in this step
AcceptedNow(t) == rres[t] # "ok" /\ rres'[t] = "ok"

\* C12: when a transaction with nonce n is accepted the cached hint becomes
\* n+1, and the next skeleton without a nonce returns n+1 as long as the
\* chain count is not beyond it; a submission made with the nonce the
\* skeleton returned passes the checks when its sender can pay for it, also
\* while the chain count is still behind, so that the rounds of a client are
\* accepted with the nonces n, n+1, ...
C12_HintFollowsAccepted ==
  [][\A t \in RequestTxs :
       /\ AcceptedNow(t) =>
            /\ nonceHint'[TX[t].from] = TX[t].nonce + 1
            /\ ChainNonce(TX[t].from, ChainHead) <= TX[t].nonce + 1 =>
                 SkeletonNonce(TX[t].from)' = TX[t].nonce + 1
       /\ (Checked(t) /\ ~ExistingRow(t) /\ AvailableBalance(TX[t].from) >= Cost(t)) =>
            rpc'[t] = "checked"
       /\ (rpc[t] = "checked" /\ rpc'[t] = "done") => rres'[t] = "unexpected_error"]_vars

\* C12 at work: two rounds were accepted with the nonces 0 and 1 while the
\* chain count was still 0
C12_Witness ==
  \E t, u \in RequestTxs :
    /\ TX[t].from = TX[u].from /\ TX[t].nonce = 0 /\ TX[u].nonce = 1
    /\ rres[t] = "ok" /\ rres[u] = "ok"
    /\ ChainNonce(TX[t].from, ChainHead) = 0
    /\ nonceHint[TX[t].from] = 2

\* the balance of an address on the chain less the cost of its own
\* unconfirmed rows; funds on their way to it do not count
BalanceLessOutgoing(a) ==
  GenesisBalance[a]
  + SumOver({u \in TxIds : minedAt[u] # 0 /\ TX[u].to = a}, [u \in TxIds |-> TX[u].value])
  - SumOver({u \in TxIds : minedAt[u] # 0 /\ TX[u].from = a}, [u \in TxIds |-> Cost(u)])
  - SumOver({u \in TxIds : status[u] = "unconfirmed" /\ TX[u].from = a}, [u \in TxIds |-> Cost(u)])

\* a request rejected in this step changes nothing but itself
RejectedClean(t) ==
  rpc'[t] = "done" =>
    /\ pool' = pool /\ accepted' = accepted /\ sent' = sent
    /\ status' = status /\ nonceHint' = nonceHint

\* C13 as stated: a request whose cost exceeds the sender's balance is
\* rejected with 'insufficient_funds', sends nothing and inserts no row.
C13_ShortIsInsufficient ==
  [][\A t \in RequestTxs :
       (Checked(t) /\ Cost(t) > BalanceLessOutgoing(TX[t].from)) =>
         /\ rpc'[t] = "done" /\ rres'[t] = "insufficient_funds"
         /\ RejectedClean(t)]_vars

\* C13 amended: a request whose cost exceeds the sender's balance is
\* rejected, with 'invalid_nonce' when a row of its (sender, nonce) that is
\* not in error is stored, and with 'insufficient_funds' otherwise; it sends
\* nothing and inserts no row; and no request is rejected with
\* 'insufficient_funds' that the sender can pay for.
C13_ShortIsRejected ==
  [][\A t \in RequestTxs :
       Checked(t) =>
         /\ Cost(t) > BalanceLessOutgoing(TX[t].from) =>
              /\ rpc'[t] = "done"
              /\ rres'[t] = IF ExistingRow(t) THEN "invalid_nonce" ELSE "insufficient_funds"
              /\ RejectedClean(t)
         /\ rres'[t] = "insufficient_funds" => Cost(t) > BalanceLessOutgoing(TX[t].from)]_vars

\* C13 at work: a request was rejected with 'insufficient_funds' for the
\* cost of an unconfirmed row, though the balance on the chain covers it
C13_Witness ==
  \E t \in RequestTxs :
    /\ rres[t] = "insufficient_funds" /\ status[t] = "none" /\ t \notin accepted
    /\ ChainBalance(TX[t].from, ChainHead) >= Cost(t)

\* C14: when the node rejects eth_sendRawTransaction the request fails with
\* 'unexpected_error', no row is inserted, and the cached nonce hint and the
\* pool of the node are as before; the lock of the (sender, nonce) is left, so
\* that the same nonce can be submitted again.
C14_NodeRefusalLeavesNoTrace ==
  [][\A t \in RequestTxs :
       (rpc[t] = "checked" /\ rpc'[t] # "checked" /\ t \notin accepted') =>
         /\ rpc'[t] = "done" /\ rres'[t] = "unexpected_error"
         /\ status' = status /\ blocknumber' = blocknumber
         /\ nonceHint' = nonceHint
         /\ pool' = pool
         /\ LockKey(t) \notin subLock'
         /\ TX[t].nonce = MaxHintCount(TX[t].from)' \/ ExistingRow(t)']_vars

\* C14 at work: the node refused a request, and another one with the same
\* nonce was accepted after it
C14_Witness ==
  \E t, u \in RequestTxs :
    /\ t # u /\ SameKey(t, u)
    /\ rres[t] = "unexpected_error" /\ status[t] = "none"
    /\ rres[u] = "ok" /\ status[u] = "unconfirmed"

\* a notification for transaction t is dispatched in this step
Announced(t) == Len(notes'[t]) > Len(notes[t])

LastNote(t) == notes'[t][Len(notes'[t])]

\* C15: when a row moves from 'new' to 'error' the notification goes to the
\* from_address only; with every other change of status that is announced
\* the from_address and the to_address are both notified.
C15_RecipientHearsUnlessNewError ==
  [][\A t \in TxIds :
       (Announced(t) /\ status'[t] # status[t]) =>
         /\ Len(notes'[t]) = Len(notes[t]) + 1
         /\ LastNote(t).to <=> ~(status[t] = "new" /\ status'[t] = "error")]_vars

\* the statuses announced for transaction t, to its sender and to its recipient
HeardBySender(t) == [k \in 1..Len(notes[t]) |-> notes[t][k].status]

ToRecipient(n) == n.to

HeardByRecipient(t) ==
  LET q == SelectSeq(notes[t], ToRecipient) IN [k \in 1..Len(q) |-> q[k].status]

\* at most one 'unconfirmed', then at most one of 'confirmed' and 'error'
InStatusOrder(q) ==
  q \in {<<>>, <<"unconfirmed">>, <<"confirmed">>, <<"error">>,
         <<"unconfirmed", "confirmed">>, <<"unconfirmed", "error">>}

\* C16: for every transaction and each of its endpoints the notifications
\* come in status order: at most one 'unconfirmed', then at most one of
\* 'confirmed' and 'error'; no status twice, no 'unconfirmed' after the end.
C16_NotesInStatusOrder ==
  \A t \in TxIds : InStatusOrder(HeardBySender(t)) /\ InStatusOrder(HeardByRecipient(t))

\* invocation i takes this step
StepOf(i) == <<ipc[i], icands[i], icall[i]>>' # <<ipc[i], icands[i], icall[i]>>

\* invocation i is in a pass for an address that an earlier pass left as it is
SecondRun(i) == ipc[i] \in {"loop", "queueing"} /\ settled[iaddr[i]] = "yes"

HeldBackByGas(a) ==
  safeLow # 0 /\ \E t \in Candidates(a) : TX[t].gas_price < safeLow

\* a row of the address waits for funds that are confirmed in a block the
\* monitor has not reached
WaitsForBlock(a) ==
  /\ Candidates(a) # {}
  /\ \E u \in TxIds : /\ TX[u].to = a /\ status[u] = "confirmed"
                       /\ blocknumber[u] > lastBlock

CallsInFlight ==
  ({c \in utasks : c.seen # "none"} \cup {icall[i] : i \in Invs} \cup {scall}) \ {NoCall}

\* C18: update_transaction called with the status the row already has
\* returns at once: the call goes no further than its SELECT, writes
\* nothing, announces nothing and dispatches no pass.
C18_SameStatusIsNoop ==
  [][/\ \A c \in CallsInFlight' : c.seen # c.st
     /\ \A c \in utasks :
          (c.seen = "none" /\ status[c.tx] = c.st /\ c \notin utasks') =>
            /\ utasks' = utasks \ {c}
            /\ status' = status /\ blocknumber' = blocknumber
            /\ notes' = notes /\ pendingPTQ' = pendingPTQ]_vars

\* C18 at work: a confirmation is dispatched for a row that is confirmed already
C18_Witness ==
  \E c \in utasks :
    c.seen = "none" /\ c.st = "confirmed" /\ status[c.tx] = "confirmed"

\* invocation i completes its pass in this step and is not asked to run again
Completes(i) == ipc[i] \in {"loop", "queueing"} /\ ipc'[i] = "release"

\* the rows of the address that are next in its nonce sequence
NextInLine(a) == {t \in Candidates(a) : TX[t].nonce = ExpectedNonce(a, lastBlock)}

\* C19 as stated: when a pass for an address has completed and should_re_run
\* is not set, no signed row of the address that is new or queued has the
\* next expected nonce and a cost of at most balance + pending_received.
C19_NothingSendableLeft ==
  [][\A i \in Invs :
       Completes(i) =>
         \A t \in NextInLine(iaddr[i])' :
           Cost(t) > WorkingBalance(iaddr[i], lastBlock)' + PendingReceived(iaddr[i], lastBlock)']_vars

\* C19 amended: when a pass for an address has completed with should_re_run
\* not set, and no row, block or gas price was changed by anyone else while
\* it ran, every signed new or queued row of the address with the next
\* expected nonce costs more than the balance alone or has a gas price below
\* the safe-low price.
C19_NothingAffordableLeft ==
  [][\A i \in Invs :
       (Completes(i) /\ settled'[iaddr[i]] = "yes") =>
         \A t \in NextInLine(iaddr[i])' :
           \/ Cost(t) > WorkingBalance(iaddr[i], lastBlock)
           \/ TX[t].gas_price < safeLow]_vars

\* an undisturbed pass is over and has sent the rows it could afford
C19_Witness ==
  \E i \in Invs :
    /\ ipc[i] = "release" /\ settled[iaddr[i]] = "yes"
    /\ Candidates(iaddr[i]) = {}
    /\ \E t \in accepted : TX[t].from = iaddr[i] /\ status[t] = "unconfirmed"

\* row t of its sender waits, queued, for the funds that row u brings
WaitsOn(t, u) ==
  /\ TX[t].signed /\ status[t] = "queued"
  /\ TX[u].to = TX[t].from /\ u # t
  /\ status[u] \in {"new", "queued", "unconfirmed", "confirmed"}
  /\ Cost(t) > ChainBalance(TX[t].from, 0)
  /\ Cost(t) <= ChainBalance(TX[t].from, 0) + TX[u].value

\* the funds have arrived: u is confirmed in a block the monitor has reached
Arrived(u) == status[u] = "confirmed" /\ blocknumber[u] # 0 /\ blocknumber[u] <= lastBlock

Submitted(t) == \E k \in 1..Len(sent[TX[t].from]) : sent[TX[t].from][k] = t

Resubmits == \E a \in Addrs, t \in TxIds, up \in BOOLEAN : SanityResend(a, t, up)

\* C21: the sweeps do not send an unconfirmed transaction that the node never
\* reports again and again for ever: from some point on no sweep re-submits.
C21_ResendsCease == <>[][~Resubmits]_vars

\* a pass begins
PassBegins == \E i \in Invs : PassStart(i)

\* C22: once the chain, last_block and the cache stay as they are, the
\* passes that follow one another (reruns, the address dispatched again, the
\* queues of the recipients) come to an end.
C22_PassesCease == <>[][~PassBegins]_vars

\* the log is what the claim looks for in the receipt: a Transfer from and to
\* the addresses of the row, or a WETH Deposit to / Withdrawal from them
LogMatches(l, row) ==
  \/ l.topic = "Transfer" /\ l.a1 = row.from /\ l.a2 = row.to
  \/ l.weth /\ l.topic = "Deposit" /\ l.a1 = row.to
  \/ l.weth /\ l.topic = "Withdrawal" /\ l.a1 = row.from

Unmatched(t, k) == ~\E l \in logs[t] : LogMatches(l, tokrows[t][k])

\* C23: when the receipt of a transaction holds no Transfer (or WETH
\* Deposit/Withdrawal) log for the addresses of one of its token rows, the
\* step that stores the transaction as confirmed and writes the row writes
\* 'error' into it, and no TokenPayment is ever rendered for that row.
C23_UnmatchedRowIsError ==
  [][\A t \in TxIds : \A k \in 1..Len(tokrows[t]) :
       Unmatched(t, k) =>
         /\ (status'[t] = "confirmed" /\ tokrows'[t][k].status # tokrows[t][k].status
               => tokrows'[t][k].status = "error")
         /\ ~\E m \in tokmsgs' \cup outbox' \cup toPush' \cup toWs' :
               m.tx = t /\ m.row = k /\ m.kind = "TokenPayment"]_vars

\* a confirmed transaction whose receipt has a log, but none for its token
\* row, which is in error
C23_Witness ==
  \E t \in TxIds : \E k \in 1..Len(tokrows[t]) :
    /\ status[t] = "confirmed"
    /\ logs[t] # {}
    /\ Unmatched(t, k)
    /\ tokrows[t][k].status = "error"

\* the send_notification task of message m for address a
TaskOf(a, m) == [addr |-> a, tx |-> m.tx, row |-> m.row, kind |-> m.kind, status |-> m.status]

Pops(i) == ipc[i] = "loop" /\ icands[i] # <<>> /\ icands'[i] # icands[i]

\* ... and calls update_transaction(candidate, 'error') for it
SetsError(i) == Pops(i) /\ icall'[i] # NoCall /\ icall'[i].st = "error"

\* the candidate has a rival of its nonce that is itself still in the queue
RivalQueued(t) == \E u \in OldTxs(t) : status[u] \in {"new", "queued"}

\* the candidates behind the head stay in line and the failure is remembered
Cascades(i) == iprev'[i] /\ icands'[i] = Tail(icands[i])

\* once a failure is remembered, the candidate taken is set to error and is
\* not sent
Cascaded(i) ==
  iprev[i] /\ Pops(i) =>
    /\ icall'[i] = UpdateRead(Head(icands[i]), "error")
    /\ iprev'[i]
    /\ icands'[i] = Tail(icands[i])
    /\ sent' = sent /\ pool' = pool /\ accepted' = accepted

Examines(i) ==
  ipc[i] = "loop" /\ icands[i] # <<>> /\ (icands'[i] # icands[i] \/ ipc'[i] = "queueing")

\* the candidate got past the cascade and the nonce checks
PastNonceChecks(i, t) ==
  /\ ~iprev[i]
  /\ \/ inonce[i] = TX[t].nonce
     \/ inet[i] = TX[t].nonce
     \/ t \in inew[i] /\ \A u \in OldTxs(t) : status[u] = "error"

\* the pass stops sending at the candidate: it is not sent, not set to
\* 'error', it stays in line with the candidates behind it to be marked
\* 'queued', and a pass for the address is scheduled
HoldsBack(i) ==
  /\ ipc'[i] = "queueing"
  /\ icands'[i] = icands[i]
  /\ icall'[i] = NoCall
  /\ sent' = sent /\ pool' = pool /\ accepted' = accepted
  /\ iaddr[i] \in pendingPTQ'

\* the rest of such a pass: each row that was 'new' gets update_transaction(..,
\* 'queued'), no other call is made, nothing is sent, no pass is scheduled
WalksQueue(i) ==
  ipc[i] = "queueing" /\ ipc'[i] = "queueing" /\ <<icands[i], icall[i]>>' # <<icands[i], icall[i]>> =>
    /\ icands'[i] # icands[i] =>
         icall'[i] = IF Head(icands[i]) \in inew[i] THEN UpdateRead(Head(icands[i]), "queued") ELSE NoCall
    /\ icall[i] # NoCall => icall[i].st = "queued" /\ status'[icall[i].tx] \in {status[icall[i].tx], "queued"}
    /\ sent' = sent /\ pool' = pool /\ accepted' = accepted
    /\ iaddr[i] \in pendingPTQ' => iaddr[i] \in pendingPTQ

InboundValue(a, lb) ==
  SumOver({u \in TxIds : /\ TX[u].to = a
                         /\ \/ status[u] \in {"new", "queued", "unconfirmed"}
                            \/ status[u] = "confirmed" /\ blocknumber[u] > lb},
          [u \in TxIds |-> TX[u].value])

NothingSent == sent' = sent /\ pool' = pool /\ accepted' = accepted

\* C27: a candidate the pass reaches whose cost exceeds the working balance
\* is set to 'error', and the candidates behind it after it, when the balance
\* and what is on its way to the sender together are below the cost;
\* otherwise it is held back with the candidates behind it, the 'new' ones
\* are marked 'queued', nothing is sent and none is set to 'error'.
C27_ShortBalance ==
  [][\A i \in Invs :
       /\ Examines(i) /\ PastNonceChecks(i, Head(icands[i])) /\ ibal[i] < Cost(Head(icands[i]))
          => IF ibal[i] + InboundValue(iaddr[i], ilast[i]) < Cost(Head(icands[i]))
             THEN /\ icall'[i] = UpdateRead(Head(icands[i]), "error")
                  /\ Cascades(i)
                  /\ NothingSent
             ELSE /\ ipc'[i] = "queueing"
                  /\ icands'[i] = icands[i]
                  /\ icall'[i] = NoCall
                  /\ NothingSent
       /\ Cascaded(i)
       /\ WalksQueue(i)]_vars

\* a pass that waits for incoming funds has marked a row 'queued'
C27_Witness ==
  \E i \in Invs : \E t \in inew[i] :
    /\ TX[t].from = iaddr[i]
    /\ icall[i] = NoCall
    /\ ibal[i] < Cost(t)
    /\ ipc[i] = "queueing"
    /\ status[t] = "queued"
    /\ ibal[i] + InboundValue(iaddr[i], ilast[i]) >= Cost(t)

\* a pass has set a row to 'error' that nothing on its way could pay for
C27_InfeasibleReached ==
  \E i \in Invs : \E t \in inew[i] :
    /\ TX[t].from = iaddr[i]
    /\ icall[i] = NoCall
    /\ ibal[i] < Cost(t)
    /\ ipc[i] = "loop"
    /\ iprev[i]
    /\ status[t] = "error"
    /\ ibal[i] + InboundValue(iaddr[i], ilast[i]) < Cost(t)

\* the pass finds, for the 'new' candidate it judges, the one other row of
\* its sender and nonce (129-133)
Resolves(i, u) ==
  /\ Examines(i)
  /\ ~iprev[i]
  /\ Head(icands[i]) \in inew[i]
  /\ inonce[i] # TX[Head(icands[i])].nonce
  /\ inet[i] # TX[Head(icands[i])].nonce
  /\ OldTxs(Head(icands[i])) = {u}

\* C28: against an 'unconfirmed' or 'confirmed' row the candidate is set to
\* 'error'; against a 'new' or 'queued' row the one with the higher gas price
\* is kept and the other is set to 'error'; after a resolution between two
\* rows of the queue the sender's queue is dispatched again.
C28_HigherGasPriceKept ==
  [][\A i \in Invs : \A u \in TxIds :
       Resolves(i, u) =>
         LET t == Head(icands[i]) IN
           /\ status[u] \in {"unconfirmed", "confirmed"} => icall'[i] = UpdateRead(t, "error")
           /\ status[u] \in {"new", "queued"} =>
                /\ icall'[i] = IF TX[t].gas_price > TX[u].gas_price
                               THEN UpdateRead(u, "error") ELSE UpdateRead(t, "error")
                /\ iaddr[i] \in icheck'[i]]_vars

\* the pass of invocation i reads its rows and the chain in this step, and
\* there are candidates
Reads(i) == ipc[i] = "start" /\ ipc'[i] = "loop" /\ Candidates(iaddr[i]) # {}

\* the sender's rows that are unconfirmed (or confirmed above last_block)
Outstanding(a) ==
  {t \in TxIds : /\ TX[t].from = a
                 /\ \/ status[t] = "unconfirmed"
                    \/ status[t] = "confirmed" /\ blocknumber[t] > lastBlock}

Larger(x, y) == IF x >= y THEN x ELSE y

\* C29: at the start of a pass the expected nonce is the larger of the chain
\* transaction count at last_block and the highest nonce of the sender's
\* unconfirmed rows plus one, and the working balance is the chain balance
\* at last_block less the cost of those rows.
C29_NonceIsMaximum ==
  [][\A i \in Invs :
       Reads(i) =>
         /\ inonce'[i] =
              Larger(ChainNonce(iaddr[i], BlockArg(lastBlock)),
                     SetMax({TX[t].nonce + 1 : t \in Outstanding(iaddr[i])} \cup {0}))
         /\ ibal'[i] =
              ChainBalance(iaddr[i], BlockArg(lastBlock))
              - SumOver(Outstanding(iaddr[i]), [t \in TxIds |-> Cost(t)])]_vars

\* the loop body of invocation i gets as far as eth_sendRawTransaction with
\* candidate t: no earlier failure in the pass, nonce accepted (old is the
\* row fetched at 133), cost covered, gas price not below the floor
ReachesSend(i, t, old) ==
  /\ ~iprev[i]
  /\ \/ inonce[i] = TX[t].nonce
     \/ inet[i] = TX[t].nonce
     \/ t \in inew[i] /\ (old = 0 \/ status[old] = "error")
  /\ ibal[i] >= Cost(t)
  /\ ~BelowSafeLow(t)

\* the update_transaction call of the pass writes the status it was given,
\* with the block number for 'confirmed', whenever the node (still) reports
\* what the status needs
WritesAsCalled(i) ==
  \A view \in {"none", "pending", "mined"}, giveUp \in BOOLEAN :
    /\ PassWrite(i, view, giveUp)
    /\ ipc[i] = "loop"
    /\ icall[i].st = "confirmed" => view = "mined"
    => /\ status'[icall[i].tx] = icall[i].st
       /\ icall[i].st = "confirmed" => blocknumber'[icall[i].tx] = minedAt[icall[i].tx]

\* C30: when eth_sendRawTransaction fails in a pass with 'nonce is too low'
\* or 'same hash was already imported' and the node knows the hash, the pass
\* sets the row to 'confirmed' if the node reports a block number and to
\* 'unconfirmed' otherwise, and starts no cascade; on every other send error
\* the row and all later candidates of the pass are set to 'error'.
C30_SendErrorReconciled ==
  [][\A i \in Invs :
       /\ \A up \in BOOLEAN, view \in {"none", "pending", "mined"}, old \in {0} \cup TxIds :
            LET t == Head(icands[i])
                answer == IF up THEN SendRawAnswer(t) ELSE "rejected"
            IN  /\ PassStep(i, up, view, old)
                /\ ReachesSend(i, t, old)
                /\ answer # "ok"
                => /\ pool' = pool
                   /\ icands'[i] = Tail(icands[i])
                   /\ IF answer \in {"nonce_too_low", "already_imported"} /\ view # "none"
                      THEN /\ icall'[i] = UpdateRead(t, IF view = "mined" THEN "confirmed" ELSE "unconfirmed")
                           /\ ~iprev'[i]
                           /\ icheck'[i] = icheck[i]
                      ELSE /\ icall'[i] = UpdateRead(t, "error")
                           /\ iprev'[i]
                           /\ TX[t].to \in icheck'[i]
       /\ Cascaded(i)
       /\ WritesAsCalled(i)]_vars

\* a pass whose send was refused found its candidate in a block and is
\* setting the row to 'confirmed', with no failure remembered
C30_Witness ==
  \E i \in Invs :
    /\ ipc[i] = "loop"
    /\ ~iprev[i]
    /\ icall[i] # NoCall
    /\ icall[i].st = "confirmed"
    /\ status[icall[i].tx] \in {"new", "queued"}

\* the candidate taken by the step is sent and accepted, or its send fails
\* with one of the two errors and the node knows its hash
EndsInFlight(i, up, view, old) ==
  LET t == Head(icands[i])
      answer == IF up THEN SendRawAnswer(t) ELSE "rejected"
  IN  /\ PassStep(i, up, view, old)
      /\ ReachesSend(i, t, old)
      /\ \/ answer = "ok"
         \/ answer \in {"nonce_too_low", "already_imported"} /\ view # "none"

\* the step sets a candidate that was 'queued' to 'error' because neither the
\* expected nonce nor the network nonce is its nonce (181-188)
MismatchError(i) ==
  /\ SetsError(i)
  /\ ~iprev[i]
  /\ Head(icands[i]) \notin inew[i]
  /\ inonce[i] # TX[Head(icands[i])].nonce
  /\ inet[i] # TX[Head(icands[i])].nonce

\* C31: within a pass, after a candidate with nonce n ends its step as
\* 'unconfirmed' or 'confirmed' (sent, or reconciled after one of the two
\* errors), the expected next nonce is n + 1, so that a following 'queued'
\* candidate with nonce n + 1 is not set to 'error' for a nonce mismatch:
\* no candidate is set to 'error' for a mismatch while the expected nonce
\* is below its nonce and the row before it is in flight.
C31_NonceFollowsCandidate ==
  [][\A i \in Invs :
       /\ \A up \in BOOLEAN, view \in {"none", "pending", "mined"}, old \in {0} \cup TxIds :
            EndsInFlight(i, up, view, old) => inonce'[i] = TX[Head(icands[i])].nonce + 1
       /\ MismatchError(i) =>
            ~\E u \in TxIds : /\ TX[u].from = iaddr[i]
                               /\ TX[u].nonce + 1 = TX[Head(icands[i])].nonce
                               /\ inonce[i] = TX[u].nonce
                               /\ status[u] \in {"unconfirmed", "confirmed"}]_vars

\* C35: a refresh of the gas prices that stores values stores the safe-low
\* price of the oracle and a standard price that is at least the safe-low
\* price (the safe-low price plus 1 Gwei when the oracle's safe-low figure
\* exceeds its average), both in one write; when either figure is missing or
\* malformed, or the fetch fails, neither cached value changes.
C35_StandardCoversSafeLow ==
  [][<<safeLow, stdPrice>>' # <<safeLow, stdPrice>> =>
       /\ stdPrice' >= safeLow'
       /\ \E avg \in Figures, low \in Figures :
            /\ avg.kind = "float" /\ low.kind = "float"
            /\ UpdateDefaultGasPrice(avg, low, TRUE)
            /\ safeLow' = low.tenths \div 10
            /\ stdPrice' = IF low.tenths \div 10 > avg.tenths \div 10
                           THEN (low.tenths \div 10) + Gwei
                           ELSE avg.tenths \div 10]_vars

\* the oracle quoted a safe-low price above its average and the padded
\* standard price is cached
C35_Witness == safeLow > 0 /\ stdPrice = safeLow + Gwei

\* the pass of invocation i hands the candidate at the head of its queue to
\* eth_sendRawTransaction in this step and the node takes it
Sends(i) ==
  /\ ipc[i] = "loop"
  /\ icands[i] # <<>>
  /\ icands'[i] = Tail(icands[i])
  /\ Head(icands[i]) \in pool' \ pool

\* C32: a pass never sends a candidate whose cost exceeds the funds left to
\* it.  The working balance starts as the chain balance at last_block less
\* the cost of the sender's unconfirmed rows, a candidate is sent only when
\* the working balance covers its cost, every send takes the cost off, and
\* nothing else changes the working balance during the pass: the costs of
\* the candidates a pass sends add up to no more than the funds it started
\* with, and the working balance is never negative after a send.
C32_SendsWithinFunds ==
  [][\A i \in Invs :
       /\ Reads(i) =>
            ibal'[i] = ChainBalance(iaddr[i], BlockArg(lastBlock))
                       - SumOver(Outstanding(iaddr[i]), [t \in TxIds |-> Cost(t)])
       /\ Sends(i) =>
            /\ Cost(Head(icands[i])) <= ibal[i]
            /\ ibal'[i] = ibal[i] - Cost(Head(icands[i]))
            /\ ibal'[i] >= 0
       /\ ipc[i] \in {"loop", "queueing"} /\ ipc'[i] \in {"loop", "queueing"} /\ ~Sends(i) =>
            ibal'[i] = ibal[i]]_vars

\* a pass has sent two candidates, the second is on its way into the row,
\* and the funds of the pass are used up
C32_Witness ==
  \E i \in Invs :
    /\ ipc[i] = "loop"
    /\ icall[i] # NoCall
    /\ icall[i].st = "unconfirmed"
    /\ icall[i].tx \in pool
    /\ TX[icall[i].tx].nonce = 1
    /\ \E u \in pool : TX[u].from = iaddr[i] /\ TX[u].nonce = 0
    /\ ibal[i] = 0

\* the update_transaction call of the pass of invocation i changes the
\* status of its row in this step
ChangesRow(i) ==
  /\ ipc[i] \in {"loop", "queueing"}
  /\ icall[i] # NoCall
  /\ icall'[i] = NoCall
  /\ status'[icall[i].tx] # status[icall[i].tx]

Probes(t) ==
  /\ status[t] = "unconfirmed"
  /\ TX[t].signed
  /\ TX[t].from \in SweptAddrs
  /\ scall = NoCall
  /\ visits < MaxVisits

\* what the sweep is able to do with row t: send it again when the node does
\* not know its hash (any node may say so) and the rebuilt hash is the stored
\* one, confirm it when the node reports it in a block
SweepActsOn(t) ==
  /\ (ENABLED SanityResend(TX[t].from, t, TRUE)) <=> HashMatches(t)
  /\ "mined" \in TxViews(t) => ENABLED SanityConfirm(TX[t].from, t)
  /\ "pending" \in TxViews(t) => ENABLED SanityLeave(TX[t].from, t, "pending")

\* a step of the sweep that looks at a row or a queue
SweepStep == visits' = visits + 1

\* what a step of the sweep does to the rows and the node
SweepEffects ==
  /\ SweepStep /\ sent' # sent =>
       \E t \in TxIds : /\ status[t] = "unconfirmed" /\ TX[t].signed /\ TX[t].intact
                        /\ sent' = SentAfter(t)
  /\ SweepStep /\ pool' # pool =>
       \E t \in TxIds : /\ status[t] = "unconfirmed" /\ TX[t].signed /\ TX[t].intact
                        /\ t \notin pool /\ minedAt[t] = 0
                        /\ pool' = PoolAfterSend(t)
                        /\ TX[t].from \in pendingPTQ'
  /\ SweepStep /\ scall' # NoCall =>
       /\ scall'.st = "confirmed"
       /\ status[scall'.tx] = "unconfirmed"
       /\ minedAt[scall'.tx] # 0
       /\ pool' = pool /\ sent' = sent
  /\ SweepStep => status' = status /\ blocknumber' = blocknumber
  /\ \A giveUp \in BOOLEAN :
       SanityWrite("mined", giveUp) /\ scall.st = "confirmed" =>
         /\ status'[scall.tx] = "confirmed"
         /\ blocknumber'[scall.tx] = minedAt[scall.tx]
         /\ pool' = pool

\* C34 as stated: the sweep deals with every signed 'unconfirmed' row of a
\* swept sender according to the answer of the node.
C34_EveryUnconfirmedRowProbed ==
  \A t \in TxIds : Probes(t) => SweepActsOn(t)

\* C34, amended: the sweep deals with every signed 'unconfirmed' row of a
\* swept sender that has no signed 'new' or 'queued' row.  If the node does
\* not know the hash, the transaction is sent again only when its rebuilt
\* hash is the stored hash, and the row stays as it is; if the node reports
\* it with a block number the row is set to 'confirmed'; if the node reports
\* it without a block number the row stays as it is and nothing is sent.
C34_UnconfirmedRowsOfIdleQueueProbed ==
  /\ [](\A t \in TxIds : Probes(t) /\ QueuedRows(TX[t].from) = {} => SweepActsOn(t))
  /\ [][SweepEffects]_vars

\* the sweep found a row in a block and is setting it to 'confirmed', and
\* has left alone a sent row whose rebuilt hash is not the stored hash
C34_Witness ==
  /\ scall # NoCall
  /\ scall.st = "confirmed"
  /\ TX[scall.tx].signed
  /\ status[scall.tx] = "unconfirmed"
  /\ \E t \in TxIds : ~TX[t].intact /\ status[t] = "unconfirmed" /\ t \in pool

\* the invocations of process_transaction_queue that are running for an address
Running(a) == {i \in Invs : iaddr[i] = a /\ ipc[i] # "idle"}

\* C36: every request made for an address while another invocation holds
\* its lock is followed by a complete pass that starts after the request;
\* no should_re_run flag is left set while no invocation is running for the
\* address.
C36_NoFlagLeftBehind == \A a \in Addrs : rerun[a] => Running(a) # {}

\* invocation i deletes the processing key of its address in this step, and
\* the key is there
DeletesKey(i) == ipc[i] = "release" /\ ipc'[i] = "idle" /\ procLock[iaddr[i]]

\* C37: an invocation deletes the processing key of an address only if the
\* key now there is the one it set: an invocation that did not acquire the
\* key, or whose key expired and was set again by another invocation, never
\* deletes the key of the holder.
C37_OnlyHolderDeletes ==
  [][\A i \in Invs : DeletesKey(i) => lockOwner[iaddr[i]] = i]_vars

\* every token row of the transaction has its final status
TokenRowsFinal(t) ==
  \A k \in 1..Len(tokrows[t]) : tokrows[t][k].status \in {"confirmed", "error"}

\* C38: when a transaction with token rows is confirmed while the node has
\* no receipt for it, the update_transaction call that was dispatched again
\* completes the work: the token rows end as 'confirmed' or 'error'.
C38_RequeueCompletes ==
  \A t \in TokenTxs : (status[t] = "confirmed" /\ HasTokens(t)) ~> TokenRowsFinal(t)

\* C39: once started, the sweep keeps running: every execution of
\* sanity_check dispatches the next one, also when a node or database call
\* made during the execution fails.  No execution has ended without the
\* dispatch at 607-608.
C39_SweepKeepsRunning == visits <= MaxVisits

\* the contract deployments
Deployments == {t \in TxIds : TX[t].to = "0x"}

\* C40: for a contract deployment no notification is dispatched to "0x"
\* and no pass is triggered for "0x", by a pass, by update_transaction or by
\* the sweep; the sender of the deployment gets its notification.
C40_NothingForZeroX ==
  /\ "0x" \notin pendingPTQ
  /\ \A i \in Invs : iaddr[i] # "0x"
  /\ \A n \in outbox \cup toWs \cup toPush : n.addr # "0x"
  /\ \A t \in Deployments :
       /\ \A k \in 1..Len(notes[t]) : ~notes[t][k].to
       /\ status[t] \notin {"none", "new"} => notes[t] # <<>>

\* a deployment failed in a pass that collected "0x" among the addresses to
\* check; the pass is over and the sender has heard of the failure
C40_Witness ==
  \E t \in Deployments :
    /\ status[t] = "error"
    /\ notes[t] # <<>>
    /\ notes[t][Len(notes[t])].status = "error"
    /\ \A i \in Invs : ipc[i] = "idle"

====
